---- MODULE Spec2Model ----
(***************************************************************************)
(* Mini-TPU host toolchain: instruction encoder, memory allocator,        *)
(* symbolic kernel compiler and Program scheduler.                         *)
(*                                                                         *)
(* A 64-bit instruction word is kept as its five disjoint bit ranges       *)
(* [63:62], [61:49], [48:36], [35:23], [22:0]; every value the encoders    *)
(* shift into a word is masked to a width that stays inside one range,     *)
(* so the record is a bijective image of the unsigned 64-bit integer.      *)
(* Python bool operands are the integers 0 and 1.                          *)
(***************************************************************************)
EXTENDS Integers, Sequences, FiniteSets, TLC

VARIABLES
    next_free_addr,   \* MemoryAllocator.next_free_addr
    memory_map,       \* MemoryAllocator.memory_map : name -> <<addr, size>>
    free_list,        \* MemoryAllocator.free_list  : sequence of <<addr, size>>
    calls,            \* Program.calls : sequence of KernelCall
    compiled_cache,   \* Program._compiled_cache : function name -> CompiledKernel
    driver,           \* the driver a KernelLauncher writes to
    tpu_txt,          \* the tpu_txt module: instruction_log and what each entry point is bound to
    traces,           \* the KernelCompiler.compile invocations that have not returned yet
    LOADS,            \* assembler.LOADS : the load directives recorded so far
    STORES,           \* assembler.STORES : the store directives recorded so far
    files,            \* the files the assembler wrote: path -> content
    heap,             \* the Param objects created so far
    chain,            \* per Param object: the signed integers added to Param(name, 0)
    cur,              \* what the run studies: a (kernel, bindings) pair, or which object it drives
    last,             \* the last operation: its arguments and its outcome
    nops              \* number of operations performed

vars == <<next_free_addr, memory_map, free_list, calls, compiled_cache,
          driver, tpu_txt, traces, LOADS, STORES, files, heap, chain, cur, last, nops>>

allocVars == <<next_free_addr, memory_map, free_list>>
progVars  == <<calls, compiled_cache>>
paramVars == <<heap, chain>>
traceVars == <<tpu_txt, traces>>
asmVars   == <<LOADS, STORES, files>>

(***************************************************************************)
(* Bounds of the exploration                                               *)
(***************************************************************************)
MaxOps == 5

(***************************************************************************)
(* compiler/runtime/allocator.py                                           *)
(***************************************************************************)
MEMORY_SIZE == 8192

Names == {"a", "b", "c", "d"}
Sizes == {8, 16, 4096}

EmptyMap == [n \in {} |-> <<0, 0>>]

RemoveAt(s, i) == SubSeq(s, 1, i - 1) \o SubSeq(s, i + 1, Len(s))

MapPut(m, name, v) ==
    [n \in (DOMAIN m) \cup {name} |-> IF n = name THEN v ELSE m[n]]

MapPop(m, name) == [n \in (DOMAIN m) \ {name} |-> m[n]]

\* a scan that prefers the last fitting block
first_fit_last(fl, words, i) ==
    LET fits == {j \in i..Len(fl) : fl[j][2] >= words} IN
    IF fits = {} THEN 0 ELSE CHOOSE j \in fits : \A k \in fits : k <= j

\* the scan of alloc(): index of the first free block with size >= words, 0 if none
RECURSIVE first_fit(_, _, _)
first_fit(fl, words, i) ==
    IF i > Len(fl) THEN 0
    ELSE IF fl[i][2] >= words THEN i
    ELSE first_fit(fl, words, i + 1)

\* a remainder that keeps the address of the block it was cut from
surplus_same_addr(free_addr, free_size, words) == <<free_addr, free_size - words>>

\* the remainder of a reused block that goes back on the free list
surplus(free_addr, free_size, words) == <<free_addr + words, free_size - words>>

\* a bump check that also rejects a request for exactly the remaining words
out_of_memory_strict(nfa, words) == nfa + words >= MEMORY_SIZE

\* the bump-allocation overflow check
out_of_memory(nfa, words) == (nfa + words) > MEMORY_SIZE

\* a free list that merges the freed block into an adjacent last block
freed_coalesced(fl, blk) ==
    IF Len(fl) > 0 /\ fl[Len(fl)][1] + fl[Len(fl)][2] = blk[1]
    THEN [fl EXCEPT ![Len(fl)] = <<@[1], @[2] + blk[2]>>]
    ELSE Append(fl, blk)

\* the free list after free(): the block is appended verbatim
freed(fl, blk) == Append(fl, blk)

\* MemoryAllocator.alloc on the allocator state A
alloc(A, name, words) ==
    LET i == first_fit(A.free_list, words, 1) IN
    IF i # 0 THEN
        LET free_addr == A.free_list[i][1]
            free_size == A.free_list[i][2]
            popped    == RemoveAt(A.free_list, i)
        IN [raised |-> FALSE, ret |-> free_addr,
            next_free_addr |-> A.next_free_addr,
            memory_map |-> MapPut(A.memory_map, name, <<free_addr, words>>),
            free_list |-> IF free_size > words
                          THEN Append(popped, surplus(free_addr, free_size, words))
                          ELSE popped]
    ELSE IF out_of_memory(A.next_free_addr, words) THEN
        [raised |-> TRUE, ret |-> -1,
         next_free_addr |-> A.next_free_addr,
         memory_map |-> A.memory_map,
         free_list |-> A.free_list]
    ELSE
        [raised |-> FALSE, ret |-> A.next_free_addr,
         next_free_addr |-> A.next_free_addr + words,
         memory_map |-> MapPut(A.memory_map, name, <<A.next_free_addr, words>>),
         free_list |-> A.free_list]

\* MemoryAllocator.free on the allocator state A
free(A, name) ==
    IF name \notin DOMAIN A.memory_map THEN
        [found |-> FALSE,
         next_free_addr |-> A.next_free_addr,
         memory_map |-> A.memory_map,
         free_list |-> A.free_list]
    ELSE
        [found |-> TRUE,
         next_free_addr |-> A.next_free_addr,
         memory_map |-> MapPop(A.memory_map, name),
         free_list |-> freed(A.free_list, A.memory_map[name])]

RECURSIVE SumSizes(_, _)
SumSizes(m, S) ==
    IF S = {} THEN 0
    ELSE LET n == CHOOSE x \in S : TRUE IN m[n][2] + SumSizes(m, S \ {n})

\* MemoryAllocator.used
used(m) == SumSizes(m, DOMAIN m)

Allocator == [next_free_addr |-> next_free_addr,
              memory_map |-> memory_map,
              free_list |-> free_list]

NoLast == [op |-> "none"]

AllocatorInit ==
    /\ next_free_addr = 0
    /\ memory_map = EmptyMap
    /\ free_list = <<>>

ProgramIdle ==
    /\ calls = <<>>
    /\ compiled_cache = EmptyMap

DriverIdle == driver = [instructions |-> <<>>, compute_called |-> FALSE]

\* InstructionCapture.__enter__ : ops_to_patch
ops_to_patch ==
    {"matmul", "add", "sub", "mul", "relu", "relu_derivative",
     "vload", "vstore", "vadd", "vsub", "vmul", "vrelu", "vmax", "vmin"}

\* tpu_txt as imported: an empty instruction_log, every entry point bound to
\* the function the module defines (0); no compile in progress
TraceIdle ==
    /\ tpu_txt = [instruction_log |-> <<>>, entry |-> [op \in ops_to_patch |-> 0]]
    /\ traces = <<>>

\* the assembler module as imported, and nothing written yet
AssemblerIdle ==
    /\ LOADS = <<>>
    /\ STORES = <<>>
    /\ files = [p \in {} |-> <<>>]

OthersIdle ==
    /\ DriverIdle
    /\ TraceIdle
    /\ AssemblerIdle
    /\ heap = <<>>
    /\ chain = <<>>
    /\ cur = NoLast

\* ---- the allocator on its own ----
Alloc(name, words) ==
    /\ nops < MaxOps
    /\ LET r == alloc(Allocator, name, words) IN
        /\ next_free_addr' = r.next_free_addr
        /\ memory_map' = r.memory_map
        /\ free_list' = r.free_list
        /\ last' = [op |-> "alloc", name |-> name, words |-> words,
                    raised |-> r.raised, ret |-> r.ret]
    /\ nops' = nops + 1
    /\ UNCHANGED <<asmVars, progVars, driver, paramVars, traceVars, cur>>

Free(name) ==
    /\ nops < MaxOps
    /\ LET r == free(Allocator, name) IN
        /\ next_free_addr' = r.next_free_addr
        /\ memory_map' = r.memory_map
        /\ free_list' = r.free_list
        /\ last' = [op |-> "free", name |-> name, found |-> r.found]
    /\ nops' = nops + 1
    /\ UNCHANGED <<asmVars, progVars, driver, paramVars, traceVars, cur>>

Reset ==
    /\ nops < MaxOps
    /\ next_free_addr' = 0
    /\ memory_map' = EmptyMap
    /\ free_list' = <<>>
    /\ last' = [op |-> "reset"]
    /\ nops' = nops + 1
    /\ UNCHANGED <<asmVars, progVars, driver, paramVars, traceVars, cur>>

InitAlloc ==
    /\ AllocatorInit
    /\ ProgramIdle
    /\ OthersIdle
    /\ last = NoLast
    /\ nops = 0

NextAlloc ==
    \/ \E name \in Names, words \in Sizes : Alloc(name, words)
    \/ \E name \in Names : Free(name)
    \/ Reset

SpecAlloc == InitAlloc /\ [][NextAlloc]_vars

(***************************************************************************)
(* Allocator claims                                                        *)
(***************************************************************************)
Disjoint(r1, r2) == r1[1] + r1[2] <= r2[1] \/ r2[1] + r2[2] <= r1[1]

InArena(r) == 0 <= r[1] /\ r[2] >= 1 /\ r[1] + r[2] <= MEMORY_SIZE

\* C4: after any sequence of alloc (>= 1 word), free and reset, all regions
\* recorded in memory_map and free_list are pairwise non-overlapping and lie
\* within [0, 8192).
C4_NoOverlap ==
    /\ \A n \in DOMAIN memory_map : InArena(memory_map[n])
    /\ \A i \in 1..Len(free_list) : InArena(free_list[i])
    /\ \A n1, n2 \in DOMAIN memory_map :
            n1 # n2 => Disjoint(memory_map[n1], memory_map[n2])
    /\ \A i, j \in 1..Len(free_list) :
            i # j => Disjoint(free_list[i], free_list[j])
    /\ \A n \in DOMAIN memory_map : \A i \in 1..Len(free_list) :
            Disjoint(memory_map[n], free_list[i])

\* a block was split: its remainder sits on the free list next to live regions
C4_Witness ==
    /\ last.op = "alloc" /\ ~last.raised
    /\ last.ret + last.words < next_free_addr
    /\ \E i \in 1..Len(free_list) : free_list[i][1] = last.ret + last.words
    /\ Cardinality(DOMAIN memory_map) >= 2

Fresh == next_free_addr = 0 /\ memory_map = EmptyMap /\ free_list = <<>>

AllocatorIs(nfa, mm, fl) ==
    next_free_addr = nfa /\ memory_map = mm /\ free_list = fl

AllocatorIsNext(nfa, mm, fl) ==
    next_free_addr' = nfa /\ memory_map' = mm /\ free_list' = fl

Scn1 == "a" :> <<0, 16>>
Scn2 == ("a" :> <<0, 16>>) @@ ("b" :> <<16, 16>>)
Scn3 == "b" :> <<16, 16>>
Scn4 == ("b" :> <<16, 16>>) @@ ("c" :> <<0, 8>>)
Scn5 == ("b" :> <<16, 16>>) @@ ("c" :> <<0, 8>>) @@ ("d" :> <<8, 8>>)

IsAlloc(l, name, words) == l.op = "alloc" /\ l.name = name /\ l.words = words

\* first fit, stated on the free list before the call
C5_FirstFitStep ==
    (last'.op = "alloc" /\ nops' = nops + 1) =>
        LET w == last'.words
            n == last'.name
            fits == {i \in 1..Len(free_list) : free_list[i][2] >= w}
        IN IF fits # {} THEN
               LET i == CHOOSE k \in fits : \A j \in fits : k <= j
                   blk == free_list[i]
                   rest == Len(free_list) - 1
               IN /\ ~last'.raised
                  /\ last'.ret = blk[1]
                  /\ n \in DOMAIN memory_map'
                  /\ memory_map'[n] = <<blk[1], w>>
                  /\ next_free_addr' = next_free_addr
                  /\ \A j \in 1..rest :
                        free_list'[j] = IF j < i THEN free_list[j] ELSE free_list[j + 1]
                  /\ IF blk[2] > w
                     THEN /\ Len(free_list') = rest + 1
                          /\ free_list'[rest + 1] = <<blk[1] + w, blk[2] - w>>
                     ELSE Len(free_list') = rest
           ELSE ~last'.raised =>
                  /\ last'.ret = next_free_addr
                  /\ next_free_addr' = next_free_addr + w
                  /\ n \in DOMAIN memory_map'
                  /\ memory_map'[n] = <<next_free_addr, w>>
                  /\ free_list' = free_list

\* the two worked examples, followed step by step from a fresh allocator
C5_ScenarioStep ==
    /\ (Fresh /\ IsAlloc(last', "a", 16) /\ nops' = nops + 1) =>
            last'.ret = 0 /\ AllocatorIsNext(16, Scn1, <<>>)
    /\ (AllocatorIs(16, Scn1, <<>>) /\ IsAlloc(last', "b", 16) /\ nops' = nops + 1) =>
            last'.ret = 16 /\ AllocatorIsNext(32, Scn2, <<>>)
    /\ (AllocatorIs(32, Scn2, <<>>) /\ last'.op = "free" /\ last'.name = "a"
            /\ nops' = nops + 1) =>
            AllocatorIsNext(32, Scn3, << <<0, 16>> >>)
    /\ (AllocatorIs(32, Scn3, << <<0, 16>> >>) /\ IsAlloc(last', "c", 8)
            /\ nops' = nops + 1) =>
            last'.ret = 0 /\ AllocatorIsNext(32, Scn4, << <<8, 8>> >>)
    /\ (AllocatorIs(32, Scn4, << <<8, 8>> >>) /\ IsAlloc(last', "d", 8)
            /\ nops' = nops + 1) =>
            last'.ret = 8 /\ AllocatorIsNext(32, Scn5, <<>>) /\ used(memory_map') = 32

\* C5: alloc returns the first block in free_list order that is large enough,
\* records (block_addr, words) under the name and appends the surplus to the
\* free list; only when no block fits does it bump next_free_addr; the worked
\* examples (x,y contiguous from 0; a,b,free a,c,d with used() = 32) follow.
C5_FirstFit == [][C5_FirstFitStep /\ C5_ScenarioStep]_vars

\* the end of the reuse example: d took the exact-fit remainder (8, 8)
C5_Witness ==
    /\ IsAlloc(last, "d", 8) /\ last.ret = 8
    /\ AllocatorIs(32, Scn5, <<>>)
    /\ used(memory_map) = 32

\* C6: alloc raises exactly when no free block fits and the bump would pass
\* 8192; a raising alloc leaves next_free_addr, memory_map and free_list as
\* they were.
C6_OutOfMemory ==
    [][(last'.op = "alloc" /\ nops' = nops + 1) =>
        /\ last'.raised <=>
               /\ \A i \in 1..Len(free_list) : free_list[i][2] < last'.words
               /\ next_free_addr + last'.words > 8192
        /\ last'.raised =>
               UNCHANGED <<next_free_addr, memory_map, free_list>>]_vars

\* the arena was filled exactly to 8192 words and the next request raised
C6_Witness ==
    /\ last.op = "alloc" /\ last.raised
    /\ next_free_addr = 8192
    /\ free_list = <<>>

\* C7: free moves the named region verbatim to the end of the free list and
\* touches nothing else; blocks are never merged, so a request larger than
\* every single free block bumps next_free_addr (or raises).
C7_FreeVerbatim ==
    [][/\ (last'.op = "free" /\ nops' = nops + 1) =>
            IF last'.name \in DOMAIN memory_map
            THEN /\ free_list' = free_list \o << memory_map[last'.name] >>
                 /\ DOMAIN memory_map' = DOMAIN memory_map \ {last'.name}
                 /\ \A n \in DOMAIN memory_map' : memory_map'[n] = memory_map[n]
                 /\ next_free_addr' = next_free_addr
            ELSE UNCHANGED <<next_free_addr, memory_map, free_list>>
       /\ (last'.op = "alloc" /\ nops' = nops + 1
            /\ \A i \in 1..Len(free_list) : free_list[i][2] < last'.words) =>
            \/ last'.raised
            \/ /\ last'.ret = next_free_addr
               /\ next_free_addr' = next_free_addr + last'.words
               /\ free_list' = free_list]_vars

\* two adjacent free blocks would together have satisfied the request, yet
\* it was bump-allocated and both blocks are still on the free list
C7_Witness ==
    /\ last.op = "alloc" /\ ~last.raised
    /\ last.ret + last.words = next_free_addr
    /\ \E i, j \in 1..Len(free_list) :
          /\ free_list[i][1] + free_list[i][2] = free_list[j][1]
          /\ free_list[i][2] + free_list[j][2] >= last.words

RECURSIVE SumBlocks(_, _)
SumBlocks(fl, i) == IF i > Len(fl) THEN 0 ELSE fl[i][2] + SumBlocks(fl, i + 1)

\* C26: after any sequence of alloc (>= 1 word), free and reset, also with
\* alloc calls that reuse a name that is currently allocated, used() plus the
\* total size of the free list equals next_free_addr: no word below the
\* high-water mark is leaked.
C26_NoLeak == used(memory_map) + SumBlocks(free_list, 1) = next_free_addr

(***************************************************************************)
(* compiler/assembler.py : the instruction encoder                         *)
(***************************************************************************)
OPCODES_VPU ==
    [add |-> 0, sub |-> 1, relu |-> 2, mul |-> 3, relu_derivative |-> 4]

OPCODES_VCOMPUTE ==
    [vadd |-> 0, vsub |-> 1, vrelu |-> 2, vmul |-> 3, vmax |-> 4, vmin |-> 5]

VPU_TYPE_SCALAR   == 0
VPU_TYPE_VLOAD    == 1
VPU_TYPE_VSTORE   == 2
VPU_TYPE_VCOMPUTE == 3

MODE_VPU      == 0
MODE_SYSTOLIC == 1
MODE_VADD     == 2
MODE_HALT     == 3

ADDR_BITS   == 13
LEN_BITS    == 23
OPCODE_BITS == 10

ADDR_MAX   == 2^ADDR_BITS - 1
LEN_MAX    == 2^LEN_BITS - 1
OPCODE_MAX == 2^OPCODE_BITS - 1

IMEM_MAX_SIZE == 256

\* Python's & and | on non-negative integers
\* (every right operand of & in the encoder is a mask 2^k - 1)
\* a mask one bit narrower than the one given
BitAnd_narrow(a, mask) == a % ((mask + 1) \div 2)

\* a & mask, for a mask of the form 2^k - 1
BitAnd(a, mask) == a % (mask + 1)

RECURSIVE BitOr(_, _)
BitOr(a, b) ==
    IF a = 0 THEN b
    ELSE IF b = 0 THEN a
    ELSE (IF a % 2 = 1 \/ b % 2 = 1 THEN 1 ELSE 0) + 2 * BitOr(a \div 2, b \div 2)

\* word = 0
ZeroWord == [b63_62 |-> 0, b61_49 |-> 0, b48_36 |-> 0, b35_23 |-> 0, b22_0 |-> 0]

\* word |= v << s, for a masked v whose shifted image stays inside one bit range
OrShl(word, v, s) ==
    IF s >= 62 THEN [word EXCEPT !.b63_62 = BitOr(@, v * 2^(s - 62))]
    ELSE IF s >= 49 THEN [word EXCEPT !.b61_49 = BitOr(@, v * 2^(s - 49))]
    ELSE IF s >= 36 THEN [word EXCEPT !.b48_36 = BitOr(@, v * 2^(s - 36))]
    ELSE IF s >= 23 THEN [word EXCEPT !.b35_23 = BitOr(@, v * 2^(s - 23))]
    ELSE [word EXCEPT !.b22_0 = BitOr(@, v * 2^s)]

\* a value returned / an exception raised
Ok(v)    == [ok |-> TRUE, val |-> v]
Raise(e) == [ok |-> FALSE, err |-> e]

\* a check of the upper end only
check_addr_upper(addr) == addr <= ADDR_MAX

\* check_addr accepts addr (it raises ValueError otherwise)
check_addr(addr) == 0 <= addr /\ addr <= ADDR_MAX

\* a register check that lets register 8 through
check_vreg_upto8(vreg) == 0 <= vreg /\ vreg <= 8

\* check_vreg accepts vreg (it raises ValueError otherwise)
check_vreg(vreg) == 0 <= vreg /\ vreg <= 7

\* an encoding that places addr_const one bit higher, at [22:11]
encode_vpu_const11(op, addr_a, addr_b, addr_out, addr_const) ==
    IF op \notin DOMAIN OPCODES_VPU THEN Raise("KeyError")
    ELSE IF ~check_addr(addr_a) THEN Raise("ValueError: addr_a out of range")
    ELSE IF ~check_addr(addr_b) THEN Raise("ValueError: addr_b out of range")
    ELSE IF ~check_addr(addr_out) THEN Raise("ValueError: addr_out out of range")
    ELSE IF ~check_addr(addr_const) THEN Raise("ValueError: addr_const out of range")
    ELSE LET w0 == OrShl(ZeroWord, BitAnd(MODE_VPU, 3), 62)
             w1 == OrShl(w0, BitAnd(addr_a, ADDR_MAX), 49)
             w2 == OrShl(w1, BitAnd(addr_b, ADDR_MAX), 36)
             w3 == OrShl(w2, BitAnd(addr_out, ADDR_MAX), 23)
             w4 == OrShl(w3, BitAnd(addr_const, ADDR_MAX) % 4096, 11)
             w5 == OrShl(w4, BitAnd(OPCODES_VPU[op], OPCODE_MAX), 0)
         IN Ok(w5)

encode_vpu(op, addr_a, addr_b, addr_out, addr_const) ==
    IF op \notin DOMAIN OPCODES_VPU THEN Raise("KeyError")
    ELSE IF ~check_addr(addr_a) THEN Raise("ValueError: addr_a out of range")
    ELSE IF ~check_addr(addr_b) THEN Raise("ValueError: addr_b out of range")
    ELSE IF ~check_addr(addr_out) THEN Raise("ValueError: addr_out out of range")
    ELSE IF ~check_addr(addr_const) THEN Raise("ValueError: addr_const out of range")
    ELSE LET w0 == OrShl(ZeroWord, BitAnd(MODE_VPU, 3), 62)
             w1 == OrShl(w0, BitAnd(addr_a, ADDR_MAX), 49)
             w2 == OrShl(w1, BitAnd(addr_b, ADDR_MAX), 36)
             w3 == OrShl(w2, BitAnd(addr_out, ADDR_MAX), 23)
             w4 == OrShl(w3, BitAnd(addr_const, ADDR_MAX), 10)
             w5 == OrShl(w4, BitAnd(OPCODES_VPU[op], OPCODE_MAX), 0)
         IN Ok(w5)

encode_systolic(addr_a, addr_b, addr_out, length) ==
    IF ~check_addr(addr_a) THEN Raise("ValueError: addr_a out of range")
    ELSE IF ~check_addr(addr_b) THEN Raise("ValueError: addr_b out of range")
    ELSE IF ~check_addr(addr_out) THEN Raise("ValueError: addr_out out of range")
    ELSE IF ~(0 <= length /\ length <= LEN_MAX) THEN Raise("ValueError: length out of range")
    ELSE LET w0 == OrShl(ZeroWord, BitAnd(MODE_SYSTOLIC, 3), 62)
             w1 == OrShl(w0, BitAnd(addr_a, ADDR_MAX), 49)
             w2 == OrShl(w1, BitAnd(addr_b, ADDR_MAX), 36)
             w3 == OrShl(w2, BitAnd(addr_out, ADDR_MAX), 23)
             w4 == OrShl(w3, BitAnd(length, LEN_MAX), 0)
         IN Ok(w4)

encode_halt == OrShl(ZeroWord, BitAnd(MODE_HALT, 3), 62)

encode_vload(vreg_dst, addr) ==
    IF ~check_vreg(vreg_dst) THEN Raise("ValueError: vreg_dst out of range")
    ELSE IF ~check_addr(addr) THEN Raise("ValueError: addr out of range")
    ELSE LET w0 == OrShl(ZeroWord, BitAnd(MODE_VPU, 3), 62)
             w1 == OrShl(w0, BitAnd(addr, ADDR_MAX), 49)
             w2 == OrShl(w1, BitAnd(VPU_TYPE_VLOAD, 7), 20)
             w3 == OrShl(w2, BitAnd(vreg_dst, 7), 17)
         IN Ok(w3)

encode_vstore(vreg_src, addr) ==
    IF ~check_vreg(vreg_src) THEN Raise("ValueError: vreg_src out of range")
    ELSE IF ~check_addr(addr) THEN Raise("ValueError: addr out of range")
    ELSE LET w0 == OrShl(ZeroWord, BitAnd(MODE_VPU, 3), 62)
             w1 == OrShl(w0, BitAnd(addr, ADDR_MAX), 49)
             w2 == OrShl(w1, BitAnd(VPU_TYPE_VSTORE, 7), 20)
             w3 == OrShl(w2, BitAnd(vreg_src, 7), 14)
         IN Ok(w3)

encode_vcompute(op, vreg_dst, vreg_a, vreg_b, scalar_b) ==
    IF op \notin DOMAIN OPCODES_VCOMPUTE THEN Raise("KeyError")
    ELSE IF ~check_vreg(vreg_dst) THEN Raise("ValueError: vreg_dst out of range")
    ELSE IF ~check_vreg(vreg_a) THEN Raise("ValueError: vreg_a out of range")
    ELSE IF ~check_vreg(vreg_b) THEN Raise("ValueError: vreg_b out of range")
    ELSE LET w0 == OrShl(ZeroWord, BitAnd(MODE_VPU, 3), 62)
             w1 == OrShl(w0, BitAnd(VPU_TYPE_VCOMPUTE, 7), 20)
             w2 == OrShl(w1, BitAnd(vreg_dst, 7), 17)
             w3 == OrShl(w2, BitAnd(vreg_a, 7), 14)
             w4 == OrShl(w3, BitAnd(vreg_b, 7), 11)
             w5 == OrShl(w4, BitAnd(OPCODES_VCOMPUTE[op], 7), 4)
             w6 == OrShl(w5, IF scalar_b # 0 THEN 1 ELSE 0, 3)
         IN Ok(w6)

(***************************************************************************)
(* compiler/kernel.py : Param, SymbolicInstruction, CompiledKernel         *)
(***************************************************************************)
\* Param(name, offset)
Param(name, offset) == [name |-> name, offset |-> offset]

\* an addition that updates the operand in place and returns it
Param_add_inplace(self, other) ==
    [self |-> Param(self.name, self.offset + other),
     result |-> Param(self.name, self.offset + other)]

\* Param.__add__ : the operand after the call and the returned Param
Param_add(self, other) ==
    [self |-> self, result |-> Param(self.name, self.offset + other)]

\* Param.__radd__
Param_radd(self, other) == Param_add(self, other)

\* a subtraction that adds
Param_sub_adds(self, other) ==
    [self |-> self, result |-> Param(self.name, self.offset + other)]

\* Param.__sub__
Param_sub(self, other) ==
    [self |-> self, result |-> Param(self.name, self.offset - other)]

\* Param.resolve
Param_resolve(self, bindings) ==
    IF self.name \notin DOMAIN bindings THEN Raise("ValueError: not bound")
    ELSE LET addr == bindings[self.name] + self.offset IN
         IF ~(0 <= addr /\ addr <= ADDR_MAX)
         THEN Raise("ValueError: resolved address out of range")
         ELSE Ok(addr)

\* operands of a SymbolicInstruction: a Param or a concrete integer
P(name, offset) == [isParam |-> TRUE, name |-> name, v |-> offset]
I(v)            == [isParam |-> FALSE, name |-> "", v |-> v]

SymbolicInstruction(op, operands) == [op |-> op, operands |-> operands]

\* an operand loop that drops the offset of a Param
RECURSIVE resolve_operands_no_offset(_, _, _, _)
resolve_operands_no_offset(operands, bindings, i, resolved) ==
    IF i > Len(operands) THEN Ok(resolved)
    ELSE IF operands[i].isParam THEN
        LET r == Param_resolve(Param(operands[i].name, 0), bindings) IN
        IF r.ok THEN resolve_operands_no_offset(operands, bindings, i + 1, Append(resolved, r.val))
        ELSE r
    ELSE resolve_operands_no_offset(operands, bindings, i + 1, Append(resolved, operands[i].v))

\* the operand loop of SymbolicInstruction.resolve, from operand i on
RECURSIVE resolve_operands(_, _, _, _)
resolve_operands(operands, bindings, i, resolved) ==
    IF i > Len(operands) THEN Ok(resolved)
    ELSE IF operands[i].isParam THEN
        LET r == Param_resolve(Param(operands[i].name, operands[i].v), bindings) IN
        IF r.ok THEN resolve_operands(operands, bindings, i + 1, Append(resolved, r.val))
        ELSE r
    ELSE resolve_operands(operands, bindings, i + 1, Append(resolved, operands[i].v))

\* the dispatch on self.op of SymbolicInstruction.resolve, once the operands
\* are resolved: it unpacks them and calls the encoder
encode_resolved(op, resolved) ==
    IF op = "matmul" THEN
        IF Len(resolved) # 4 THEN Raise("ValueError: unpack")
        ELSE encode_systolic(resolved[1], resolved[2], resolved[3], resolved[4])
    ELSE IF op = "vload" THEN
        IF Len(resolved) # 2 THEN Raise("ValueError: unpack")
        ELSE encode_vload(resolved[1], resolved[2])
    ELSE IF op = "vstore" THEN
        IF Len(resolved) # 2 THEN Raise("ValueError: unpack")
        ELSE encode_vstore(resolved[1], resolved[2])
    ELSE IF op = "vrelu" THEN
        IF Len(resolved) # 2 THEN Raise("ValueError: unpack")
        ELSE encode_vcompute(op, resolved[1], resolved[2], 0, 0)
    ELSE IF op \in {"vmax", "vmin"} THEN
        IF Len(resolved) # 3 THEN Raise("ValueError: unpack")
        ELSE encode_vcompute(op, resolved[1], resolved[2], resolved[3], 0)
    ELSE IF op \in DOMAIN OPCODES_VCOMPUTE THEN
        IF Len(resolved) # 4 THEN Raise("ValueError: unpack")
        ELSE encode_vcompute(op, resolved[1], resolved[2], resolved[3], resolved[4])
    ELSE IF op \in DOMAIN OPCODES_VPU THEN
        IF Len(resolved) < 3 THEN Raise("ValueError: unpack")
        ELSE encode_vpu(op, resolved[1], resolved[2], resolved[3],
                        IF Len(resolved) > 3 THEN resolved[4] ELSE 0)
    ELSE Raise("ValueError: Unknown operation")

\* SymbolicInstruction.resolve
SymbolicInstruction_resolve(self, bindings) ==
    LET rr == resolve_operands(self.operands, bindings, 1, <<>>) IN
    IF ~rr.ok THEN rr ELSE encode_resolved(self.op, rr.val)

CompiledKernel(name, params, instructions) ==
    [name |-> name, params |-> params, instructions |-> instructions]

Range(s) == {s[i] : i \in 1..Len(s)}

\* a missing set that ignores the last declared parameter
missing_but_last(params, bindings) ==
    {params[i] : i \in 1..(Len(params) - 1)} \ DOMAIN bindings

\* set(self.params) - set(bindings.keys())
missing_bindings(params, bindings) == Range(params) \ DOMAIN bindings

\* the result of resolving each instruction on its own
resolve_each(instructions, bindings) ==
    [i \in 1..Len(instructions) |-> SymbolicInstruction_resolve(instructions[i], bindings)]

IsOk(r) == r.ok

\* the list a comprehension builds when no element raises
values(rs) == Ok([i \in 1..Len(rs) |-> rs[i].val])

\* a comprehension over rs: the exception of the first element that raises,
\* else the list of the values
first_raise_or_values(rs) ==
    IF \A i \in 1..Len(rs) : rs[i].ok THEN values(rs)
    ELSE rs[CHOOSE i \in 1..Len(rs) : ~rs[i].ok /\ \A j \in 1..(i - 1) : rs[j].ok]

\* a comprehension that skips an instruction it cannot resolve
resolve_skipping(instructions, bindings) ==
    values(SelectSeq(resolve_each(instructions, bindings), IsOk))

\* [instr.resolve(bindings) for instr in self.instructions]: the first
\* instruction that raises ends the comprehension
resolve_all(instructions, bindings) ==
    first_raise_or_values(resolve_each(instructions, bindings))

\* CompiledKernel.resolve
CompiledKernel_resolve(self, bindings) ==
    LET missing == missing_bindings(self.params, bindings) IN
    IF missing # {}
    THEN [ok |-> FALSE, err |-> "ValueError: Missing bindings", missing |-> missing]
    ELSE resolve_all(self.instructions, bindings)

(***************************************************************************)
(* compiler/kernel.py : trace capture (one trace at a time, not nested)    *)
(***************************************************************************)
NoKwargs == [n \in {} |-> 0]

\* a call tpu_txt.<op>(*args, **kwargs) issued by a kernel body
OpCall(op, args, kwargs) == [op |-> op, args |-> args, kwargs |-> kwargs]

\* a Param object passed as an argument
AsOperand(param) == P(param.name, param.offset)

Prefix(s, n) == SubSeq(s, 1, IF Len(s) < n THEN Len(s) ELSE n)

\* a capture function that records the call's arguments as they are
capture_fn_raw(op_name, args, kwargs) == SymbolicInstruction(op_name, args)

\* InstructionCapture._make_capture_fn(op_name)(*args, **kwargs)
capture_fn(op_name, args, kwargs) ==
    IF op_name = "matmul" THEN
        LET m == IF Len(args) < 4
                 THEN (IF "m" \in DOMAIN kwargs THEN kwargs["m"] ELSE 4)
                 ELSE args[4].v
        IN SymbolicInstruction(op_name, <<args[1], args[2], args[3], I(m * m)>>)
    ELSE IF op_name \in {"vload", "vstore"} THEN
        SymbolicInstruction(op_name, Prefix(args, 2))
    ELSE IF op_name \in {"vadd", "vsub", "vmul"} THEN
        LET scalar == IF Len(args) < 4
                      THEN I(IF "scalar" \in DOMAIN kwargs THEN kwargs["scalar"] ELSE 0)
                      ELSE args[4]
        IN SymbolicInstruction(op_name, <<args[1], args[2], args[3], scalar>>)
    ELSE IF op_name = "vrelu" THEN
        SymbolicInstruction(op_name, Prefix(args, 2))
    ELSE IF op_name \in {"vmax", "vmin"} THEN
        SymbolicInstruction(op_name, Prefix(args, 3))
    ELSE SymbolicInstruction(op_name, args)

\* a @kernel function: its __name__, its Param parameters, the calls its body issues
KernelFunction(name, params, body) == [name |-> name, params |-> params, body |-> body]

\* KernelCompiler.compile
KernelCompiler_compile(kernel_def) ==
    CompiledKernel(kernel_def.name, kernel_def.params,
        [i \in 1..Len(kernel_def.body) |->
            capture_fn(kernel_def.body[i].op, kernel_def.body[i].args,
                       kernel_def.body[i].kwargs)])

Prm(name, k) == AsOperand(Param_add(Param(name, 0), k).result)

(***************************************************************************)
(* compiler/kernels : the pre-built kernels                                *)
(***************************************************************************)
matmul_4x4 ==
    KernelFunction("matmul_4x4", <<"W", "X", "Z">>,
        << OpCall("matmul", <<Prm("W", 0), Prm("X", 0), Prm("Z", 0)>>, "m" :> 4) >>)

\* for i, j in range(2): k = 0 matmul into Z_tile; k = 1 matmul into temp, 16 adds
matmul_8x8_tiled ==
    KernelFunction("matmul_8x8_tiled", <<"W", "X", "Z", "temp">>,
        [n \in 1..72 |->
            LET ij == (n - 1) \div 18
                r  == (n - 1) % 18
                i  == ij \div 2
                j  == ij % 2
                t2 == 16
                Z_tile == (i * 2 + j) * t2
                k  == IF r = 0 THEN 0 ELSE 1
                X_tile == (i * 2 + k) * t2
                W_tile == (j * 2 + k) * t2
            IN IF r = 0 THEN
                   OpCall("matmul", <<Prm("W", W_tile), Prm("X", X_tile), Prm("Z", Z_tile)>>,
                          "m" :> 4)
               ELSE IF r = 1 THEN
                   OpCall("matmul", <<Prm("W", W_tile), Prm("X", X_tile), Prm("temp", 0)>>,
                          "m" :> 4)
               ELSE
                   OpCall("add", <<Prm("Z", Z_tile + (r - 2)), Prm("temp", r - 2),
                                   Prm("Z", Z_tile + (r - 2))>>, NoKwargs)])

\* for i in range(n): add(A + i, B + i, C + i), n = 16
vector_add ==
    KernelFunction("vector_add", <<"A", "B", "C">>,
        [n \in 1..16 |->
            OpCall("add", <<Prm("A", n - 1), Prm("B", n - 1), Prm("C", n - 1)>>, NoKwargs)])

vector_add_simd ==
    KernelFunction("vector_add_simd", <<"A", "B", "C">>,
        << OpCall("vload", <<I(0), Prm("A", 0)>>, NoKwargs),
           OpCall("vload", <<I(1), Prm("B", 0)>>, NoKwargs),
           OpCall("vadd", <<I(2), I(0), I(1)>>, NoKwargs),
           OpCall("vstore", <<I(2), Prm("C", 0)>>, NoKwargs) >>)

(***************************************************************************)
(* CompiledKernel objects built directly, as the unit tests do             *)
(***************************************************************************)
\* CompiledKernel(name="test", params=["W","X","Z"], instructions=[])
ck_empty == CompiledKernel("test", <<"W", "X", "Z">>, <<>>)

\* only W is referenced by an instruction
ck_unused ==
    CompiledKernel("unused", <<"W", "X", "Z">>,
        << SymbolicInstruction("vload", <<I(0), P("W", 0)>>),
           SymbolicInstruction("vrelu", <<I(1), I(0)>>),
           SymbolicInstruction("vmax", <<I(2), I(1), I(0)>>) >>)

\* the second instruction names vector register 8
ck_badreg ==
    CompiledKernel("badreg", <<"A", "B", "C">>,
        << SymbolicInstruction("add", <<P("A", 0), P("B", 0), P("C", 0)>>),
           SymbolicInstruction("vload", <<I(8), P("A", 0)>>) >>)

\* the second instruction has an op no encoder knows
ck_unknown ==
    CompiledKernel("unknown", <<"W", "X", "Z">>,
        << SymbolicInstruction("matmul", <<P("W", 0), P("X", 0), P("Z", 0), I(16)>>),
           SymbolicInstruction("halt", <<>>) >>)

\* the last instruction carries a concrete address beyond 8191
ck_concrete ==
    CompiledKernel("concrete", <<"W", "X", "Z">>,
        << SymbolicInstruction("relu", <<P("W", 0), I(0), P("Z", 0)>>),
           SymbolicInstruction("vstore", <<I(7), P("X", 4)>>),
           SymbolicInstruction("sub", <<I(9000), I(0), I(0)>>) >>)

KernelLib ==
    { KernelCompiler_compile(matmul_4x4), KernelCompiler_compile(vector_add),
      KernelCompiler_compile(vector_add_simd),
      ck_empty, ck_unused, ck_badreg, ck_unknown, ck_concrete }

PartialMaps(D, V) == UNION {[S -> V] : S \in SUBSET D}

ResolveBindings ==
    PartialMaps({"W", "X", "Z"}, {0, 16, 8191}) \cup
    PartialMaps({"A", "B", "C"}, {0, 8176, 8191})

(***************************************************************************)
(* Param arithmetic and resolution                                         *)
(***************************************************************************)
MaxParams == 3

ParamNames == {"W", "X"}
Offsets == {-10000, -3, 5, 10000}
ParamBindings ==
    { NoKwargs, "X" :> 100, "X" :> 10000, "W" :> 8191, ("W" :> 0) @@ ("X" :> 16) }

RECURSIVE SumSeq(_)
SumSeq(s) == IF s = <<>> THEN 0 ELSE s[1] + SumSeq(Tail(s))

OthersIdleParam ==
    /\ AllocatorInit
    /\ ProgramIdle
    /\ DriverIdle
    /\ TraceIdle
    /\ AssemblerIdle
    /\ cur = NoLast
    /\ nops = 0

\* p = Param(name)
NewParam(name) ==
    /\ Len(heap) < MaxParams
    /\ heap' = Append(heap, Param(name, 0))
    /\ chain' = Append(chain, <<>>)
    /\ last' = [op |-> "param_new", name |-> name]
    /\ UNCHANGED <<asmVars, allocVars, progVars, driver, traceVars, cur, nops>>

\* q = p + k
ParamAdd(i, k) ==
    /\ Len(heap) < MaxParams
    /\ LET r == Param_add(heap[i], k) IN
        heap' = Append([heap EXCEPT ![i] = r.self], r.result)
    /\ chain' = Append(chain, Append(chain[i], k))
    /\ last' = [op |-> "param_add", i |-> i, k |-> k]
    /\ UNCHANGED <<asmVars, allocVars, progVars, driver, traceVars, cur, nops>>

\* q = k + p
ParamRadd(i, k) ==
    /\ Len(heap) < MaxParams
    /\ LET r == Param_radd(heap[i], k) IN
        heap' = Append([heap EXCEPT ![i] = r.self], r.result)
    /\ chain' = Append(chain, Append(chain[i], k))
    /\ last' = [op |-> "param_radd", i |-> i, k |-> k]
    /\ UNCHANGED <<asmVars, allocVars, progVars, driver, traceVars, cur, nops>>

\* q = p - k
ParamSub(i, k) ==
    /\ Len(heap) < MaxParams
    /\ LET r == Param_sub(heap[i], k) IN
        heap' = Append([heap EXCEPT ![i] = r.self], r.result)
    /\ chain' = Append(chain, Append(chain[i], -k))
    /\ last' = [op |-> "param_sub", i |-> i, k |-> k]
    /\ UNCHANGED <<asmVars, allocVars, progVars, driver, traceVars, cur, nops>>

\* p.resolve(bindings)
ParamResolve(i, bindings) ==
    /\ last' = [op |-> "param_resolve", i |-> i, bindings |-> bindings,
                ret |-> Param_resolve(heap[i], bindings)]
    /\ UNCHANGED <<asmVars, allocVars, progVars, driver, paramVars, traceVars, cur, nops>>

InitParam ==
    /\ OthersIdleParam
    /\ heap = <<>>
    /\ chain = <<>>
    /\ last = NoLast

NextParam ==
    \/ \E name \in ParamNames : NewParam(name)
    \/ \E i \in 1..Len(heap), k \in Offsets : ParamAdd(i, k)
    \/ \E i \in 1..Len(heap), k \in Offsets : ParamRadd(i, k)
    \/ \E i \in 1..Len(heap), k \in Offsets : ParamSub(i, k)
    \/ \E i \in 1..Len(heap), b \in ParamBindings : ParamResolve(i, b)

SpecParam == InitParam /\ [][NextParam]_vars

\* C8: Param arithmetic leaves its operand as it was; the offset of every
\* Param is the net sum of the integers added and subtracted since
\* Param(name, 0); resolve returns bindings[name] + that sum, and fails iff the
\* name is unbound or the final sum is outside 0..8191, whatever the
\* intermediate offsets were.
C8_ParamNetSum ==
    [][/\ \A i \in 1..Len(heap) : heap'[i] = heap[i]
       /\ \A i \in 1..Len(heap') :
            heap'[i].offset = SumSeq(chain'[i])
       /\ last'.op = "param_resolve" =>
            LET p == heap'[last'.i]
                b == last'.bindings
                r == last'.ret
            IN IF p.name \notin DOMAIN b THEN ~r.ok
               ELSE LET a == b[p.name] + SumSeq(chain'[last'.i]) IN
                    IF 0 <= a /\ a <= 8191 THEN r.ok /\ r.val = a ELSE ~r.ok]_vars

\* a Param whose offset left 0..8191 on the way (+10000, then -10000 or
\* the like) resolved to an address in range
C8_Witness ==
    /\ last.op = "param_resolve" /\ last.ret.ok
    /\ Len(chain[last.i]) >= 2
    /\ last.bindings[heap[last.i].name] + chain[last.i][1] \notin 0..8191
    /\ \E k \in 2..Len(chain[last.i]) : chain[last.i][k] < 0

(***************************************************************************)
(* CompiledKernel.resolve as a function of (kernel, bindings)              *)
(***************************************************************************)
OthersIdleResolve ==
    /\ AllocatorInit
    /\ ProgramIdle
    /\ DriverIdle
    /\ TraceIdle
    /\ AssemblerIdle
    /\ heap = <<>>
    /\ chain = <<>>
    /\ nops = 0

\* compiled.resolve(bindings)
KernelResolve ==
    /\ last.op = "none"
    /\ last' = [op |-> "ck_resolve",
                ret |-> CompiledKernel_resolve(cur.kernel, cur.bindings)]
    /\ UNCHANGED <<asmVars, allocVars, progVars, driver, paramVars, traceVars, cur, nops>>

InitResolve ==
    /\ OthersIdleResolve
    /\ cur \in [kernel : KernelLib, bindings : ResolveBindings]
    /\ last = NoLast

NextResolve == KernelResolve

SpecResolve == InitResolve /\ [][NextResolve]_vars

Unbound(kernel, bindings) == {n \in Range(kernel.params) : n \notin DOMAIN bindings}

\* C9: when a declared parameter has no binding, CompiledKernel.resolve
\* raises the missing-bindings error naming exactly params minus the bound
\* names, whatever the instructions are.
C9_MissingBinding ==
    (last.op = "ck_resolve" /\ Unbound(cur.kernel, cur.bindings) # {}) =>
        /\ ~last.ret.ok
        /\ last.ret.err = "ValueError: Missing bindings"
        /\ last.ret.missing = Unbound(cur.kernel, cur.bindings)

\* only Z is missing and every instruction would have resolved on its own
C9_Witness ==
    /\ last.op = "ck_resolve" /\ ~last.ret.ok
    /\ last.ret.err = "ValueError: Missing bindings"
    /\ last.ret.missing = {"Z"}
    /\ cur.kernel.instructions # <<>>
    /\ \A i \in 1..Len(cur.kernel.instructions) :
          SymbolicInstruction_resolve(cur.kernel.instructions[i], cur.bindings).ok

KnownOps ==
    {"matmul", "vload", "vstore", "vadd", "vsub", "vrelu", "vmul", "vmax", "vmin",
     "add", "sub", "relu", "mul", "relu_derivative"}

\* positions of the address operands / register operands of an instruction
AddrPositions(instr) ==
    IF instr.op = "matmul" THEN {1, 2, 3}
    ELSE IF instr.op \in {"vload", "vstore"} THEN {2}
    ELSE IF instr.op \in {"add", "sub", "relu", "mul", "relu_derivative"}
         THEN 1..(IF Len(instr.operands) > 3 THEN 4 ELSE 3)
    ELSE {}

RegPositions(instr) ==
    IF instr.op \in {"vload", "vstore"} THEN {1}
    ELSE IF instr.op = "vrelu" THEN {1, 2}
    ELSE IF instr.op \in {"vadd", "vsub", "vmul", "vmax", "vmin"} THEN {1, 2, 3}
    ELSE {}

Bound(o, bindings) == ~o.isParam \/ o.name \in DOMAIN bindings

ValueOf(o, bindings) == IF o.isParam THEN bindings[o.name] + o.v ELSE o.v

\* the instruction cannot be encoded under the bindings
InstrFails(instr, bindings) ==
    \/ instr.op \notin KnownOps
    \/ \E k \in 1..Len(instr.operands) : ~Bound(instr.operands[k], bindings)
    \/ \E k \in AddrPositions(instr) :
          ValueOf(instr.operands[k], bindings) \notin 0..8191
    \/ \E k \in RegPositions(instr) :
          ValueOf(instr.operands[k], bindings) \notin 0..7

\* C10: with every parameter bound, CompiledKernel.resolve raises and returns
\* no word when any instruction fails (address outside 0..8191, register
\* outside 0..7, unknown op), however many earlier ones resolved; otherwise it
\* returns one word per instruction, in order.
C10_ResolveAtomic ==
    (last.op = "ck_resolve" /\ Unbound(cur.kernel, cur.bindings) = {}) =>
        LET instrs == cur.kernel.instructions IN
        IF \E i \in 1..Len(instrs) : InstrFails(instrs[i], cur.bindings)
        THEN ~last.ret.ok /\ "val" \notin DOMAIN last.ret
        ELSE /\ last.ret.ok
             /\ Len(last.ret.val) = Len(instrs)
             /\ \A i \in 1..Len(instrs) :
                   last.ret.val[i] =
                       SymbolicInstruction_resolve(instrs[i], cur.bindings).val

\* the first instruction resolved, a later one failed, nothing was returned
C10_Witness ==
    /\ last.op = "ck_resolve" /\ ~last.ret.ok
    /\ Unbound(cur.kernel, cur.bindings) = {}
    /\ Len(cur.kernel.instructions) >= 2
    /\ SymbolicInstruction_resolve(cur.kernel.instructions[1], cur.bindings).ok

(***************************************************************************)
(* compiler/program.py : Program, and KernelLauncher of compiler/kernel.py *)
(*                                                                         *)
(* A Program and a KernelLauncher share no state, so a run drives one of   *)
(* the two objects; cur says which.                                        *)
(***************************************************************************)
MaxCalls == 4
MaxBump  == 16

\* np.concatenate with the arrays taken last to first
RECURSIVE concatenate_reversed(_)
concatenate_reversed(arrays) ==
    IF arrays = <<>> THEN <<>>
    ELSE concatenate_reversed(Tail(arrays)) \o Head(arrays)

\* np.concatenate(arrays)
RECURSIVE concatenate(_)
concatenate(arrays) ==
    IF arrays = <<>> THEN <<>>
    ELSE Head(arrays) \o concatenate(Tail(arrays))

\* a schedule step that closes every kernel with its own HALT
scheduled_with_halt(resolved) == Append(resolved, encode_halt)

\* all_instructions.append(resolved): the words of one call as scheduled
scheduled(resolved) == resolved

\* a loop that leaves out the calls that do not resolve
RECURSIVE resolve_calls_skipping(_, _, _)
resolve_calls_skipping(cs, i, all_instructions) ==
    IF i > Len(cs) THEN Ok(all_instructions)
    ELSE LET r == CompiledKernel_resolve(cs[i].kernel, cs[i].bindings) IN
         IF r.ok THEN resolve_calls_skipping(cs, i + 1, Append(all_instructions, scheduled(r.val)))
         ELSE resolve_calls_skipping(cs, i + 1, all_instructions)

\* the loop over (kernel, bindings) pairs of Program.compile and launch_batch
RECURSIVE resolve_calls(_, _, _)
resolve_calls(cs, i, all_instructions) ==
    IF i > Len(cs) THEN Ok(all_instructions)
    ELSE LET r == CompiledKernel_resolve(cs[i].kernel, cs[i].bindings) IN
         IF r.ok THEN resolve_calls(cs, i + 1, Append(all_instructions, scheduled(r.val)))
         ELSE r

\* a stream closed by two HALT words
combined_with_two_halts(all_instructions) ==
    concatenate(<< IF all_instructions # <<>> THEN concatenate(all_instructions) ELSE <<>>,
                   <<encode_halt, encode_halt>> >>)

\* combined = np.concatenate(all_instructions) if all_instructions else [];
\* np.concatenate([combined, halt])
combined_with_halt(all_instructions) ==
    concatenate(<< IF all_instructions # <<>> THEN concatenate(all_instructions) ELSE <<>>,
                   <<encode_halt>> >>)

\* a compile() that rejects a call bound to an address no region holds
Program_compile_checked(cs) ==
    IF \E i \in 1..Len(cs) : \E p \in DOMAIN cs[i].bindings :
          \A n \in DOMAIN memory_map :
              ~(memory_map[n][1] <= cs[i].bindings[p]
                  /\ cs[i].bindings[p] < memory_map[n][1] + memory_map[n][2])
    THEN Raise("ValueError: region not allocated")
    ELSE LET r == resolve_calls(cs, 1, <<>>) IN
         IF ~r.ok THEN r ELSE Ok(combined_with_halt(r.val))

\* Program.compile
Program_compile(cs) ==
    LET r == resolve_calls(cs, 1, <<>>) IN
    IF ~r.ok THEN r ELSE Ok(combined_with_halt(r.val))

\* bit k of a word
Bit(word, k) ==
    IF k >= 62 THEN (word.b63_62 \div 2^(k - 62)) % 2
    ELSE IF k >= 49 THEN (word.b61_49 \div 2^(k - 49)) % 2
    ELSE IF k >= 36 THEN (word.b48_36 \div 2^(k - 36)) % 2
    ELSE IF k >= 23 THEN (word.b35_23 \div 2^(k - 23)) % 2
    ELSE (word.b22_0 \div 2^k) % 2

HexDigits ==
    <<"0", "1", "2", "3", "4", "5", "6", "7", "8", "9", "A", "B", "C", "D", "E", "F">>

\* f"{instr:016X}" : sixteen uppercase hex digits, most significant first
format_016X(word) ==
    [d \in 1..16 |->
        LET lo == 4 * (16 - d) IN
        HexDigits[1 + Bit(word, lo) + 2 * Bit(word, lo + 1)
                    + 4 * Bit(word, lo + 2) + 8 * Bit(word, lo + 3)]]

\* Program.save after instructions = self.compile() gave r: what is written
\* and what is returned
Program_save(r, format) ==
    IF ~r.ok THEN r
    ELSE IF format = "npy" THEN
        [ok |-> TRUE, val |-> Len(r.val), written |-> r.val]
    ELSE IF format \in {"hex", "txt"} THEN
        [ok |-> TRUE, val |-> Len(r.val),
         written |-> [i \in 1..Len(r.val) |-> format_016X(r.val[i])]]
    ELSE Raise("ValueError: Unknown format")

IsKernelFunction(kernel) == "body" \in DOMAIN kernel

KernelCall(kernel, bindings) == [kernel |-> kernel, bindings |-> bindings]

\* ---- inputs ----
BindWXZ  == ("W" :> 0) @@ ("X" :> 16) @@ ("Z" :> 32)
BindABC  == ("A" :> 48) @@ ("B" :> 64) @@ ("C" :> 80)
BindLow  == ("A" :> 0) @@ ("B" :> 4) @@ ("C" :> 8)
BindTile == ("W" :> 0) @@ ("X" :> 64) @@ ("Z" :> 128) @@ ("temp" :> 192)

CallIds == {"tiled", "simd", "badreg"}

\* def add_kernel(A, B, C): add(A, B, C)
add_kernel ==
    KernelFunction("add_kernel", <<"A", "B", "C">>,
        << OpCall("add", <<Prm("A", 0), Prm("B", 0), Prm("C", 0)>>, NoKwargs) >>)

\* another definition whose function is also named add_kernel:
\* for i in range(4): add(A + i, B + i, C + i)
add_kernel_4 ==
    KernelFunction("add_kernel", <<"A", "B", "C">>,
        [n \in 1..4 |->
            OpCall("add", <<Prm("A", n - 1), Prm("B", n - 1), Prm("C", n - 1)>>, NoKwargs)])

BindAB   == ("A" :> 0) @@ ("B" :> 4)
BindHigh == ("A" :> 0) @@ ("B" :> 4) @@ ("C" :> 8192)

\* the calls a scheduling run draws from
SchedIds == {"add", "add4", "missing", "range"}

CallInput ==
    [id \in CallIds \cup SchedIds |->
        IF id = "add" THEN KernelCall(add_kernel, BindLow)
        ELSE IF id = "add4" THEN KernelCall(add_kernel_4, BindLow)
        ELSE IF id = "missing" THEN KernelCall(KernelCompiler_compile(add_kernel), BindAB)
        ELSE IF id = "range" THEN KernelCall(KernelCompiler_compile(add_kernel), BindHigh)
        ELSE IF id = "tiled" THEN KernelCall(matmul_8x8_tiled, BindTile)
        ELSE IF id = "simd" THEN KernelCall(KernelCompiler_compile(vector_add_simd), BindABC)
        ELSE KernelCall(ck_badreg, BindLow)]

LaunchIds == {"mm", "badreg"}

LaunchInput ==
    [id \in LaunchIds |->
        IF id = "mm" THEN KernelCall(KernelCompiler_compile(matmul_4x4), BindWXZ)
        ELSE KernelCall(ck_badreg, BindLow)]

BatchIds == {"empty", "test", "big", "fail"}

BatchInput ==
    [id \in BatchIds |->
        IF id = "empty" THEN <<>>
        ELSE IF id = "test" THEN
            << KernelCall(KernelCompiler_compile(matmul_4x4), BindWXZ),
               KernelCall(KernelCompiler_compile(vector_add), BindABC) >>
        ELSE IF id = "big" THEN
            [i \in 1..4 |-> KernelCall(KernelCompiler_compile(matmul_8x8_tiled), BindTile)]
        ELSE << KernelCall(KernelCompiler_compile(vector_add_simd), BindABC),
                KernelCall(ck_badreg, BindLow) >>]

SaveFormats == {"npy", "hex", "bin"}

\* ---- Program ----
ProgramAlloc(name, words) ==
    /\ cur = "program"
    /\ next_free_addr < MaxBump
    /\ LET r == alloc(Allocator, name, words) IN
        /\ next_free_addr' = r.next_free_addr
        /\ memory_map' = r.memory_map
        /\ free_list' = r.free_list
        /\ last' = [op |-> "alloc", name |-> name, words |-> words,
                    raised |-> r.raised, ret |-> r.ret]
    /\ UNCHANGED <<asmVars, progVars, driver, paramVars, traceVars, cur, nops>>

ProgramFree(name) ==
    /\ cur = "program"
    /\ LET r == free(Allocator, name) IN
        /\ next_free_addr' = r.next_free_addr
        /\ memory_map' = r.memory_map
        /\ free_list' = r.free_list
        /\ last' = [op |-> "free", name |-> name, found |-> r.found]
    /\ UNCHANGED <<asmVars, progVars, driver, paramVars, traceVars, cur, nops>>

ProgramCall(id) ==
    /\ cur = "program"
    /\ Len(calls) < MaxCalls
    /\ LET kernel   == CallInput[id].kernel
           bindings == CallInput[id].bindings
       IN IF IsKernelFunction(kernel) THEN
              LET name  == kernel.name
                  cache == IF name \notin DOMAIN compiled_cache
                           THEN MapPut(compiled_cache, name, KernelCompiler_compile(kernel))
                           ELSE compiled_cache
              IN /\ compiled_cache' = cache
                 /\ calls' = Append(calls, KernelCall(cache[name], bindings))
          ELSE /\ compiled_cache' = compiled_cache
               /\ calls' = Append(calls, KernelCall(kernel, bindings))
    /\ last' = [op |-> "call", id |-> id]
    /\ UNCHANGED <<asmVars, allocVars, driver, paramVars, traceVars, cur, nops>>

\* a compile() that empties the call list once the stream is built
ProgramCompile_draining ==
    /\ cur = "program"
    /\ last' = [op |-> "compile", ret |-> Program_compile(calls)]
    /\ calls' = <<>>
    /\ UNCHANGED <<asmVars, allocVars, compiled_cache, driver, paramVars, traceVars, cur, nops>>

ProgramCompile ==
    /\ cur = "program"
    /\ last' = [op |-> "compile", ret |-> Program_compile(calls)]
    /\ UNCHANGED <<asmVars, allocVars, progVars, driver, paramVars, traceVars, cur, nops>>

ProgramSave ==
    /\ cur = "program"
    /\ LET r == Program_compile(calls) IN
       \E format \in SaveFormats :
           last' = [op |-> "save", format |-> format, ret |-> Program_save(r, format)]
    /\ UNCHANGED <<asmVars, allocVars, progVars, driver, paramVars, traceVars, cur, nops>>

ProgramReset ==
    /\ cur = "program"
    /\ next_free_addr' = 0
    /\ memory_map' = EmptyMap
    /\ free_list' = <<>>
    /\ calls' = <<>>
    /\ compiled_cache' = EmptyMap
    /\ last' = [op |-> "reset"]
    /\ UNCHANGED <<asmVars, driver, paramVars, traceVars, cur, nops>>

\* ---- KernelLauncher over a driver that keeps what it was given ----
\* driver.write_instructions(instructions); driver.compute()
load_and_execute(instructions) ==
    [instructions |-> instructions, compute_called |-> TRUE]

Launch(id) ==
    /\ cur = "launcher"
    /\ LET r == CompiledKernel_resolve(LaunchInput[id].kernel, LaunchInput[id].bindings) IN
       IF ~r.ok THEN
           /\ driver' = driver
           /\ last' = [op |-> "launch", id |-> id, ok |-> FALSE, events |-> <<>>]
       ELSE
           /\ driver' = load_and_execute(concatenate(<<r.val, <<encode_halt>> >>))
           /\ last' = [op |-> "launch", id |-> id, ok |-> TRUE,
                       events |-> <<"write_instructions", "compute">>]
    /\ UNCHANGED <<asmVars, allocVars, progVars, paramVars, traceVars, cur, nops>>

\* a launch_batch that streams the kernels that resolved when another failed
LaunchBatch_partial(id) ==
    /\ cur = "launcher"
    /\ \E r \in {resolve_calls(BatchInput[id], 1, <<>>)} :
       \E combined \in {combined_with_halt(resolve_calls_skipping(BatchInput[id], 1, <<>>).val)} :
          /\ driver' = load_and_execute(combined)
          /\ last' = IF r.ok
                      THEN [op |-> "launch_batch", id |-> id, ok |-> TRUE,
                            events |-> <<"write_instructions", "compute">>,
                            ret |-> Len(combined) - 1]
                      ELSE [op |-> "launch_batch", id |-> id, ok |-> FALSE,
                            events |-> <<"write_instructions", "compute">>]
    /\ UNCHANGED <<asmVars, allocVars, progVars, paramVars, traceVars, cur, nops>>

LaunchBatch(id) ==
    /\ cur = "launcher"
    /\ \E r \in {resolve_calls(BatchInput[id], 1, <<>>)} :
       IF ~r.ok THEN
           /\ driver' = driver
           /\ last' = [op |-> "launch_batch", id |-> id, ok |-> FALSE, events |-> <<>>]
       ELSE
           \E combined \in {combined_with_halt(r.val)} :
              /\ driver' = load_and_execute(combined)
              /\ last' = [op |-> "launch_batch", id |-> id, ok |-> TRUE,
                          events |-> <<"write_instructions", "compute">>,
                          ret |-> Len(combined) - 1]
    /\ UNCHANGED <<asmVars, allocVars, progVars, paramVars, traceVars, cur, nops>>

InitProg ==
    /\ AllocatorInit
    /\ ProgramIdle
    /\ DriverIdle
    /\ TraceIdle
    /\ AssemblerIdle
    /\ heap = <<>>
    /\ chain = <<>>
    /\ cur \in {"program", "launcher"}
    /\ last = NoLast
    /\ nops = 0

NextProg ==
    \/ \E name \in {"a"}, words \in {16} : ProgramAlloc(name, words)
    \/ \E name \in {"a"} : ProgramFree(name)
    \/ \E id \in CallIds : ProgramCall(id)
    \/ ProgramCompile
    \/ ProgramSave
    \/ ProgramReset
    \/ \E id \in LaunchIds : Launch(id)
    \/ \E id \in BatchIds : LaunchBatch(id)

SpecProg == InitProg /\ [][NextProg]_vars

\* ---- a Program on its own, scheduling small kernels ----
InitSched == InitProg /\ cur = "program"

NextSched ==
    \/ \E name \in {"a", "b"}, words \in {16} : ProgramAlloc(name, words)
    \/ \E name \in {"a", "b"} : ProgramFree(name)
    \/ \E id \in SchedIds : ProgramCall(id)
    \/ ProgramCompile
    \/ ProgramSave
    \/ ProgramReset

SpecSched == InitSched /\ [][NextSched]_vars

(***************************************************************************)
(* Program / launcher claims                                               *)
(***************************************************************************)
HaltWord == [b63_62 |-> 3, b61_49 |-> 0, b48_36 |-> 0, b35_23 |-> 0, b22_0 |-> 0]

InstrCount(cs, i) == Len(cs[i].kernel.instructions)

\* number of words scheduled before call i
RECURSIVE WordsBefore(_, _)
WordsBefore(cs, i) ==
    IF i <= 1 THEN 0 ELSE WordsBefore(cs, i - 1) + InstrCount(cs, i - 1)

\* every call has all its parameters bound and no failing instruction
AllResolve(cs) ==
    \A i \in 1..Len(cs) :
        /\ Unbound(cs[i].kernel, cs[i].bindings) = {}
        /\ \A j \in 1..InstrCount(cs, i) :
              ~InstrFails(cs[i].kernel.instructions[j], cs[i].bindings)

\* stream = resolve(c1) ++ ... ++ resolve(cn) ++ [HALT], position by position
IsConcat(stream, cs) ==
    /\ Len(stream) = WordsBefore(cs, Len(cs) + 1) + 1
    /\ \A i \in 1..Len(cs) : \A j \in 1..InstrCount(cs, i) :
          stream[WordsBefore(cs, i) + j] =
              SymbolicInstruction_resolve(cs[i].kernel.instructions[j], cs[i].bindings).val
    /\ stream[Len(stream)] = HaltWord

C1_Streams ==
    /\ (last.op = "compile" /\ AllResolve(calls)) =>
            last.ret.ok /\ IsConcat(last.ret.val, calls)
    /\ (last.op = "launch_batch" /\ AllResolve(BatchInput[last.id])) =>
            last.ok /\ IsConcat(driver.instructions, BatchInput[last.id])

C1_CallStep ==
    /\ (last'.op = "call" /\ calls' # calls) =>
            /\ calls' = Append(calls, calls'[Len(calls')])
            /\ calls'[Len(calls')].bindings = CallInput[last'.id].bindings
            /\ calls'[Len(calls')].kernel.name = CallInput[last'.id].kernel.name
    /\ last'.op \notin {"call", "reset"} => calls' = calls

\* C1: call() appends to the call list and nothing else reorders it; when all
\* bindings resolve, compile() returns the words of each call contiguously in
\* call order followed by HALT, and launch_batch hands the driver the same
\* concatenation for its list of pairs.
C1_CallOrder == []C1_Streams /\ [][C1_CallStep]_vars

\* a compiled program of at least two calls of different kernels
C1_Witness ==
    /\ last.op = "compile" /\ last.ret.ok
    /\ Len(calls) >= 2
    /\ calls[1].kernel.name # calls[2].kernel.name
    /\ InstrCount(calls, 1) > 0 /\ InstrCount(calls, 2) > 0

OneHaltLast(stream) ==
    /\ Len(stream) >= 1
    /\ {i \in 1..Len(stream) : stream[i].b63_62 = 3} = {Len(stream)}

\* the same on hex lines: the leading digit carries bits [63:60]
OneHaltLastHex(lines) ==
    /\ Len(lines) >= 1
    /\ {i \in 1..Len(lines) : lines[i][1] \in {"C", "D", "E", "F"}} = {Len(lines)}

\* C2: every stream compile() returns, save() writes, or launch()/launch_batch()
\* hands to the driver has exactly one word with mode bits [63:62] = 3, and it
\* is the last word.
C2_SingleHalt ==
    /\ (last.op = "compile" /\ last.ret.ok) => OneHaltLast(last.ret.val)
    /\ (last.op = "save" /\ last.ret.ok /\ last.format = "npy") =>
            OneHaltLast(last.ret.written)
    /\ (last.op = "save" /\ last.ret.ok /\ last.format = "hex") =>
            OneHaltLastHex(last.ret.written)
    /\ (last.op \in {"launch", "launch_batch"} /\ last.ok) =>
            OneHaltLast(driver.instructions)

\* a compiled stream that mixes systolic, scalar and SIMD words of two calls
C2_Witness ==
    /\ last.op = "compile" /\ last.ret.ok
    /\ Len(calls) >= 2
    /\ \E i \in 1..Len(last.ret.val) : last.ret.val[i].b63_62 = 1
    /\ \E i \in 1..Len(last.ret.val) :
          last.ret.val[i].b63_62 = 0 /\ last.ret.val[i].b22_0 \div 2^20 = 3

\* C3 (as claimed): whatever was scheduled, a stream that is returned, saved
\* or handed to write_instructions has at most 256 words including the HALT.
C3_ImemLimit ==
    /\ (last.op = "compile" /\ last.ret.ok) => Len(last.ret.val) <= 256
    /\ (last.op = "save" /\ last.ret.ok) => last.ret.val <= 256
    /\ (last.op \in {"launch", "launch_batch"} /\ last.ok) =>
            Len(driver.instructions) <= 256

\* C21: call() caches per kernel definition: a call with an un-compiled
\* kernel k schedules the instructions traced from k itself, and k is traced
\* (the cache grows) only when no earlier call traced it, also when two
\* definitions scheduled in one Program share their function name.
C21_CachePerDefinition ==
    [][(/\ last'.op = "call" /\ calls' # calls
        /\ IsKernelFunction(CallInput[last'.id].kernel)) =>
          LET traced == KernelCompiler_compile(CallInput[last'.id].kernel) IN
          /\ calls'[Len(calls')].kernel = traced
          /\ compiled_cache' # compiled_cache =>
                \A n \in DOMAIN compiled_cache : compiled_cache[n] # traced]_vars

\* C22: compile() is a pure read: whether it returns or raises, the allocator
\* state, the call list and the kernel cache are as before the call, and a
\* compile() directly after a compile() returns the same.
C22_CompilePure ==
    [][/\ last'.op = "compile" => UNCHANGED <<allocVars, progVars>>
       /\ (last.op = "compile" /\ last'.op = "compile") => last'.ret = last.ret]_vars

\* a compile() that raised, on a Program with an allocation, several calls
\* and a cached kernel
C22_Witness ==
    /\ last.op = "compile" /\ ~last.ret.ok
    /\ memory_map # EmptyMap
    /\ Len(calls) >= 2 /\ compiled_cache # EmptyMap

\* C27: the stream compile() returns depends only on the call list: whatever
\* alloc and free did since the calls were scheduled (the region a call is
\* bound to freed, its addresses given to another name), compile() returns the
\* concatenation of the calls' words and HALT exactly when every call
\* resolves, and raises only when a call does not resolve.
C27_CompileIgnoresAllocator ==
    last.op = "compile" =>
        IF AllResolve(calls)
        THEN last.ret.ok /\ IsConcat(last.ret.val, calls)
        ELSE ~last.ret.ok /\ "val" \notin DOMAIN last.ret

\* a compile that returned with a call bound to 0, 4, 8 while the region
\* 0..15 is on the free list and no region is allocated
C27_Witness ==
    /\ last.op = "compile" /\ last.ret.ok
    /\ calls # <<>> /\ calls[1].bindings = BindLow
    /\ memory_map = EmptyMap
    /\ free_list = << <<0, 16>> >>

\* a compile that returned with the addresses of the call now held by the
\* region named b
C27_WitnessRenamed ==
    /\ last.op = "compile" /\ last.ret.ok
    /\ calls # <<>> /\ calls[1].bindings = BindLow
    /\ DOMAIN memory_map = {"b"} /\ memory_map["b"] = <<0, 16>>

C28_Raises ==
    (last.op \in {"compile", "save"} /\ ~AllResolve(calls)) => ~last.ret.ok

C28_Steps ==
    /\ last'.op = "call" =>
            calls' = Append(calls, KernelCall(calls'[Len(calls')].kernel,
                                              CallInput[last'.id].bindings))
    /\ (~AllResolve(calls) /\ last'.op # "reset") =>
            /\ ~AllResolve(calls')
            /\ SubSeq(calls', 1, Len(calls)) = calls

\* C28: call() appends whatever it is given, a call with a parameter left
\* unbound or an operand outside 0..8191 included; once such a call is
\* scheduled, no alloc, free, call, compile or save removes it, and every
\* compile() and save() raises until reset() clears the list.
C28_PoisonedUntilReset == []C28_Raises /\ [][C28_Steps]_vars

\* a save that raises on a list of three calls whose first leaves C unbound
\* and whose later ones resolve, after a region was allocated
C28_Witness ==
    /\ last.op = "save" /\ ~last.ret.ok
    /\ Len(calls) >= 3
    /\ Unbound(calls[1].kernel, calls[1].bindings) = {"C"}
    /\ AllResolve(SubSeq(calls, 2, Len(calls)))
    /\ memory_map # EmptyMap

\* the (kernel, bindings) pairs of the launch or batch that last ran
LaunchedPairs(l) ==
    IF l.op = "launch" THEN <<LaunchInput[l.id]>> ELSE BatchInput[l.id]

C30_Events ==
    last.op \in {"launch", "launch_batch"} =>
        IF AllResolve(LaunchedPairs(last))
        THEN /\ last.ok
             /\ last.events = <<"write_instructions", "compute">>
             /\ driver.compute_called
             /\ IsConcat(driver.instructions, LaunchedPairs(last))
        ELSE ~last.ok /\ last.events = <<>>

C30_FailedStep ==
    (last'.op \in {"launch", "launch_batch"} /\ ~last'.ok) => driver' = driver

\* C30: launch and launch_batch call the driver's write_instructions once and
\* then compute once, with the whole stream; when a kernel of the launch or
\* batch does not resolve, neither is called and the driver is left as it
\* was, so no partial stream reaches the device.
C30_AllOrNothing == []C30_Events /\ [][C30_FailedStep]_vars

\* a batch whose first kernel resolved and whose second failed, on a driver
\* that still holds the stream of an earlier launch
C30_Witness ==
    /\ last.op = "launch_batch" /\ ~last.ok
    /\ CompiledKernel_resolve(BatchInput[last.id][1].kernel,
                              BatchInput[last.id][1].bindings).ok
    /\ driver.compute_called
    /\ IsConcat(driver.instructions, <<LaunchInput["mm"]>>)

RECURSIVE instruction_count(_, _)
instruction_count(kernels, i) ==
    IF i > Len(kernels) THEN 0
    ELSE Len(kernels[i].kernel.instructions) + instruction_count(kernels, i + 1)

BatchDone == last.op = "launch_batch" /\ last.ok

\* C19: launch_batch returns the number of words handed to the driver minus
\* one, which is the sum of the instruction counts of the batched kernels; for
\* the empty batch the driver gets the one-word stream HALT, compute() is
\* still invoked, and 0 is returned.
C19_BatchCount ==
    BatchDone =>
        /\ last.ret = Len(driver.instructions) - 1
        /\ last.ret = instruction_count(BatchInput[last.id], 1)
        /\ driver.compute_called
        /\ last.events = <<"write_instructions", "compute">>
        /\ BatchInput[last.id] = <<>> =>
              /\ driver.instructions = <<encode_halt>>
              /\ last.ret = 0

\* the empty batch was launched
C19_Witness ==
    /\ BatchDone
    /\ BatchInput[last.id] = <<>>
    /\ Len(driver.instructions) = 1 /\ driver.compute_called
    /\ last.ret = 0

(***************************************************************************)
(* compiler/assembler.py : the encode functions called on their own        *)
(***************************************************************************)
AddrInputs  == {-1, 0, 4, 8, 4095, 8191, 8192}
ConstInputs == {-1, 0, 80, 1023, 1024, 4095, 4096, 8191, 8192}
LenInputs   == {-1, 0, 16, 8388607, 8388608}
VregInputs  == {-1, 0, 1, 2, 5, 7, 8}
VpuOpInputs == DOMAIN OPCODES_VPU \cup {"vadd"}
VcomputeOpInputs == DOMAIN OPCODES_VCOMPUTE \cup {"add"}

OthersIdleEncode ==
    /\ AllocatorInit
    /\ ProgramIdle
    /\ DriverIdle
    /\ TraceIdle
    /\ AssemblerIdle
    /\ heap = <<>>
    /\ chain = <<>>
    /\ nops = 0

\* one call of an encode function per run, on arguments drawn from the input sets
EncodeVpu ==
    /\ cur = "encoder" /\ last = NoLast
    /\ \E op \in VpuOpInputs, addr_a \in AddrInputs, addr_b \in AddrInputs,
          addr_out \in AddrInputs, addr_const \in ConstInputs :
          last' = [op |-> "encode_vpu",
                   args |-> [op |-> op, addr_a |-> addr_a, addr_b |-> addr_b,
                             addr_out |-> addr_out, addr_const |-> addr_const],
                   ret |-> encode_vpu(op, addr_a, addr_b, addr_out, addr_const)]
    /\ UNCHANGED <<asmVars, allocVars, progVars, driver, paramVars, traceVars, cur, nops>>

EncodeSystolic ==
    /\ cur = "encoder" /\ last = NoLast
    /\ \E addr_a \in AddrInputs, addr_b \in AddrInputs, addr_out \in AddrInputs,
          length \in LenInputs :
          last' = [op |-> "encode_systolic",
                   args |-> [addr_a |-> addr_a, addr_b |-> addr_b,
                             addr_out |-> addr_out, length |-> length],
                   ret |-> encode_systolic(addr_a, addr_b, addr_out, length)]
    /\ UNCHANGED <<asmVars, allocVars, progVars, driver, paramVars, traceVars, cur, nops>>

EncodeHalt ==
    /\ cur = "encoder" /\ last = NoLast
    /\ last' = [op |-> "encode_halt", ret |-> Ok(encode_halt)]
    /\ UNCHANGED <<asmVars, allocVars, progVars, driver, paramVars, traceVars, cur, nops>>

EncodeVload ==
    /\ cur = "encoder" /\ last = NoLast
    /\ \E vreg_dst \in VregInputs, addr \in AddrInputs :
          last' = [op |-> "encode_vload",
                   args |-> [vreg |-> vreg_dst, addr |-> addr],
                   ret |-> encode_vload(vreg_dst, addr)]
    /\ UNCHANGED <<asmVars, allocVars, progVars, driver, paramVars, traceVars, cur, nops>>

EncodeVstore ==
    /\ cur = "encoder" /\ last = NoLast
    /\ \E vreg_src \in VregInputs, addr \in AddrInputs :
          last' = [op |-> "encode_vstore",
                   args |-> [vreg |-> vreg_src, addr |-> addr],
                   ret |-> encode_vstore(vreg_src, addr)]
    /\ UNCHANGED <<asmVars, allocVars, progVars, driver, paramVars, traceVars, cur, nops>>

EncodeVcompute ==
    /\ cur = "encoder" /\ last = NoLast
    /\ \E op \in VcomputeOpInputs, vreg_dst \in VregInputs, vreg_a \in VregInputs,
          vreg_b \in VregInputs, scalar_b \in {0, 1} :
          last' = [op |-> "encode_vcompute",
                   args |-> [op |-> op, vreg_dst |-> vreg_dst, vreg_a |-> vreg_a,
                             vreg_b |-> vreg_b, scalar_b |-> scalar_b],
                   ret |-> encode_vcompute(op, vreg_dst, vreg_a, vreg_b, scalar_b)]
    /\ UNCHANGED <<asmVars, allocVars, progVars, driver, paramVars, traceVars, cur, nops>>

InitEncode ==
    /\ OthersIdleEncode
    /\ cur = "encoder"
    /\ last = NoLast

NextEncode ==
    \/ EncodeVpu
    \/ EncodeSystolic
    \/ EncodeHalt
    \/ EncodeVload
    \/ EncodeVstore
    \/ EncodeVcompute

SpecEncode == InitEncode /\ [][NextEncode]_vars

(***************************************************************************)
(* Encoder claims                                                          *)
(***************************************************************************)
\* (word >> lo) & (2^(hi - lo + 1) - 1), for [hi:lo] inside one of the five
\* bit ranges a word is kept as
Field(word, hi, lo) ==
    IF lo >= 62 THEN (word.b63_62 \div 2^(lo - 62)) % 2^(hi - lo + 1)
    ELSE IF lo >= 49 THEN (word.b61_49 \div 2^(lo - 49)) % 2^(hi - lo + 1)
    ELSE IF lo >= 36 THEN (word.b48_36 \div 2^(lo - 36)) % 2^(hi - lo + 1)
    ELSE IF lo >= 23 THEN (word.b35_23 \div 2^(lo - 23)) % 2^(hi - lo + 1)
    ELSE (word.b22_0 \div 2^lo) % 2^(hi - lo + 1)

InAddr(a) == 0 <= a /\ a <= 8191
InVreg(r) == 0 <= r /\ r <= 7

\* the arguments of the last encode call are all inside their declared widths
LegalArgs ==
    IF last.op = "encode_vpu" THEN
        /\ last.args.op \in {"add", "sub", "relu", "mul", "relu_derivative"}
        /\ InAddr(last.args.addr_a) /\ InAddr(last.args.addr_b)
        /\ InAddr(last.args.addr_out) /\ InAddr(last.args.addr_const)
    ELSE IF last.op = "encode_systolic" THEN
        /\ InAddr(last.args.addr_a) /\ InAddr(last.args.addr_b)
        /\ InAddr(last.args.addr_out)
        /\ 0 <= last.args.length /\ last.args.length <= 8388607
    ELSE IF last.op \in {"encode_vload", "encode_vstore"} THEN
        InVreg(last.args.vreg) /\ InAddr(last.args.addr)
    ELSE IF last.op = "encode_vcompute" THEN
        /\ last.args.op \in {"vadd", "vsub", "vrelu", "vmul", "vmax", "vmin"}
        /\ InVreg(last.args.vreg_dst) /\ InVreg(last.args.vreg_a)
        /\ InVreg(last.args.vreg_b)
    ELSE last.op = "encode_halt"

\* C11: for legal arguments the word of encode_vpu / encode_systolic decodes
\* to mode at [63:62] (0 for VPU, 1 for SYSTOLIC), addr_a at
\* [61:49], addr_b at [48:36] and addr_out at [35:23], whatever the other
\* fields hold; encode_vpu("add", 0, 4, 8) is 0x0000004004000000.
C11_AddrFields ==
    (last.op \in {"encode_vpu", "encode_systolic"} /\ LegalArgs) =>
        /\ last.ret.ok
        /\ Field(last.ret.val, 63, 62) = (IF last.op = "encode_vpu" THEN 0 ELSE 1)
        /\ Field(last.ret.val, 61, 49) = last.args.addr_a
        /\ Field(last.ret.val, 48, 36) = last.args.addr_b
        /\ Field(last.ret.val, 35, 23) = last.args.addr_out
        /\ (last.op = "encode_systolic" =>
                Field(last.ret.val, 22, 0) = last.args.length)
        /\ (last.op = "encode_vpu" =>
                /\ Field(last.ret.val, 22, 10) = last.args.addr_const
                /\ Field(last.ret.val, 9, 0) = OPCODES_VPU[last.args.op])
        /\ (last.op = "encode_vpu"
              /\ last.args = [op |-> "add", addr_a |-> 0, addr_b |-> 4,
                              addr_out |-> 8, addr_const |-> 0]
              => format_016X(last.ret.val) =
                    <<"0", "0", "0", "0", "0", "0", "4", "0",
                      "0", "4", "0", "0", "0", "0", "0", "0">>)

\* every address field at its maximum next to a non-zero neighbour field
C11_Witness ==
    /\ last.op = "encode_vpu" /\ last.ret.ok
    /\ last.args.addr_a = 8191 /\ last.args.addr_b = 4095
    /\ last.args.addr_out = 8191 /\ last.args.addr_const = 8191
    /\ last.args.op = "relu_derivative"

\* C12: every encode function raises, and returns no word, when an argument is
\* outside its declared width (address outside 0..8191, register outside 0..7,
\* length outside 0..2^23-1, op name not in its opcode table); it returns a
\* word otherwise.
C12_RangeErrors ==
    last.op \in {"encode_vpu", "encode_systolic", "encode_vload",
                 "encode_vstore", "encode_vcompute"} =>
        /\ last.ret.ok <=> LegalArgs
        /\ ~last.ret.ok => "val" \notin DOMAIN last.ret

\* a scalar op whose only illegal argument is addr_const = 8192
C12_Witness ==
    /\ last.op = "encode_vpu" /\ ~last.ret.ok
    /\ last.args.op = "mul"
    /\ last.args.addr_a = 8191 /\ last.args.addr_b = 0 /\ last.args.addr_out = 4
    /\ last.args.addr_const = 8192

\* bits [22:20] of a word
vpu_type(word) == Field(word, 22, 20)

\* C13 (as claimed): a scalar word encoded with addr_const < 4096 has vpu_type
\* bits [22:20] equal to 0.
C13_VpuTypeZeroBelow4096 ==
    (last.op = "encode_vpu" /\ LegalArgs /\ last.args.addr_const < 4096) =>
        vpu_type(last.ret.val) = 0

\* C13 (amended): the vpu_type bits of a scalar word are addr_const div 1024,
\* so they are 0 exactly when addr_const < 1024, and then the word differs
\* from every VLOAD, VSTORE and VCOMPUTE word, whose vpu_type is 1, 2 and 3.
C13_VpuTypeZeroBelow1024 ==
    /\ (last.op = "encode_vpu" /\ LegalArgs) =>
            /\ vpu_type(last.ret.val) = last.args.addr_const \div 1024
            /\ vpu_type(last.ret.val) = 0 <=> last.args.addr_const < 1024
    /\ (last.op = "encode_vload" /\ LegalArgs) => vpu_type(last.ret.val) = 1
    /\ (last.op = "encode_vstore" /\ LegalArgs) => vpu_type(last.ret.val) = 2
    /\ (last.op = "encode_vcompute" /\ LegalArgs) => vpu_type(last.ret.val) = 3
    /\ (last.op \in {"encode_vload", "encode_vstore", "encode_vcompute"} /\ LegalArgs) =>
            last.ret.val.b63_62 = MODE_VPU

\* a scalar word with the largest addr_const that keeps vpu_type 0
C13_Witness ==
    /\ last.op = "encode_vpu" /\ last.ret.ok
    /\ last.args.addr_const = 1023
    /\ last.args.addr_a = 8191 /\ last.args.addr_out = 8191
    /\ vpu_type(last.ret.val) = 0

\* C14 (as claimed): encode_vstore gives a VPU-mode word with vpu_type 2, the
\* BRAM address in addr_out [35:23], vreg_src in [16:14], all other bits zero.
C14_VstoreLayout ==
    (last.op = "encode_vstore" /\ LegalArgs) =>
        /\ last.ret.ok
        /\ last.ret.val = [b63_62 |-> 0, b61_49 |-> 0, b48_36 |-> 0,
                           b35_23 |-> last.args.addr,
                           b22_0 |-> 2 * 2^20 + last.args.vreg * 2^14]

(***************************************************************************)
(* compiler/kernel.py : SymbolicInstruction.resolve on its own             *)
(***************************************************************************)
InstrOps == KnownOps \cup {"halt"}

InstrOperands == {P("A", 0), P("B", 5), I(0), I(1), I(7)}

OperandTuples ==
    UNION {[1..n -> InstrOperands] : n \in 2..4}

InstrBindings ==
    { ("A" :> 2) @@ ("B" :> 64),
      ("A" :> 8190) @@ ("B" :> 0),
      ("A" :> 0),
      ("A" :> 8191) @@ ("B" :> 8190) }

InstrResolve ==
    /\ last = NoLast
    /\ last' = [op |-> "si_resolve",
                ret |-> SymbolicInstruction_resolve(cur.instr, cur.bindings)]
    /\ UNCHANGED <<asmVars, allocVars, progVars, driver, paramVars, traceVars, cur, nops>>

InitInstr ==
    /\ OthersIdleResolve
    /\ cur \in [instr : {SymbolicInstruction(op, operands) :
                            op \in InstrOps, operands \in OperandTuples},
                bindings : InstrBindings]
    /\ last = NoLast

NextInstr == InstrResolve

SpecInstr == InitInstr /\ [][NextInstr]_vars

\* every Param operand is bound and its address bindings[name] + offset is in range
ParamsResolve(instr, bindings) ==
    \A k \in 1..Len(instr.operands) :
        instr.operands[k].isParam =>
            /\ Bound(instr.operands[k], bindings)
            /\ ValueOf(instr.operands[k], bindings) \in 0..8191

\* C15: when its Params resolve, SymbolicInstruction.resolve is the encoder of
\* the op applied to the operands with each Param replaced by
\* bindings[name] + offset: matmul (W,X,Z,len) -> encode_systolic, vload /
\* vstore (reg,addr) -> encode_vload / encode_vstore, vrelu (dst,src) ->
\* encode_vcompute(op,dst,src,0,false), vmax/vmin (dst,a,b) ->
\* encode_vcompute(op,dst,a,b,false), vadd/vsub/vmul (dst,a,b,scalar) ->
\* encode_vcompute(op,dst,a,b,scalar), scalar ops (a,b,out[,const]) ->
\* encode_vpu(op,a,b,out,const or 0); any other op raises unknown operation.
C15_ResolveShape ==
    (last.op = "si_resolve" /\ ParamsResolve(cur.instr, cur.bindings)) =>
        LET op == cur.instr.op
            n  == Len(cur.instr.operands)
            v  == [k \in 1..n |-> ValueOf(cur.instr.operands[k], cur.bindings)]
        IN /\ (op = "matmul" /\ n = 4) =>
                  last.ret = encode_systolic(v[1], v[2], v[3], v[4])
           /\ (op = "vload" /\ n = 2) => last.ret = encode_vload(v[1], v[2])
           /\ (op = "vstore" /\ n = 2) => last.ret = encode_vstore(v[1], v[2])
           /\ (op = "vrelu" /\ n = 2) =>
                  last.ret = encode_vcompute(op, v[1], v[2], 0, 0)
           /\ (op \in {"vmax", "vmin"} /\ n = 3) =>
                  last.ret = encode_vcompute(op, v[1], v[2], v[3], 0)
           /\ (op \in {"vadd", "vsub", "vmul"} /\ n = 4) =>
                  last.ret = encode_vcompute(op, v[1], v[2], v[3], v[4])
           /\ (op \in {"add", "sub", "mul", "relu", "relu_derivative"} /\ n = 3) =>
                  last.ret = encode_vpu(op, v[1], v[2], v[3], 0)
           /\ (op \in {"add", "sub", "mul", "relu", "relu_derivative"} /\ n = 4) =>
                  last.ret = encode_vpu(op, v[1], v[2], v[3], v[4])
           /\ op \notin KnownOps =>
                  last.ret = Raise("ValueError: Unknown operation")

\* a scalar op with a const operand and a Param that carries an offset
C15_Witness ==
    /\ last.op = "si_resolve" /\ last.ret.ok
    /\ cur.instr.op = "relu"
    /\ Len(cur.instr.operands) = 4
    /\ cur.instr.operands[1] = P("B", 5)
    /\ cur.instr.operands[3] = P("A", 0)
    /\ cur.instr.operands[4] = I(7)
    /\ cur.bindings["B"] = 64

(***************************************************************************)
(* compiler/kernel.py, compiler/tpu_txt.py : tracing, step by step.        *)
(* A kernel body imports the operations inside the function, so each call  *)
(* goes through the entry point tpu_txt currently binds to the name: 0 is  *)
(* the function tpu_txt defines, n > 0 the capture function of the n-th    *)
(* InstructionCapture. A line of instruction_log is kept as its op and     *)
(* its operand list. Here one thread compiles one kernel at a time.        *)
(***************************************************************************)
MaxCompiles == 2
MaxLog == 2

\* tpu_txt.<op>(*args, **kwargs) as the module defines it: the arguments it logs
logged_operands(op, args) ==
    IF op = "matmul" THEN Prefix(args, 3)
    ELSE IF op \in {"vadd", "vsub", "vmul"} /\ Len(args) < 4 THEN Append(args, I(0))
    ELSE args

\* log_instruction(op, *operands)
log_instruction(log, op, operands) == Append(log, [op |-> op, operands |-> operands])

\* a kernel whose body uses every operand shape and every default
kernel_shapes ==
    KernelFunction("shapes", <<"A", "B">>,
        << OpCall("matmul", <<Prm("A", 0), Prm("B", 0), Prm("A", 16)>>, NoKwargs),
           OpCall("matmul", <<Prm("A", 0), Prm("B", 0), Prm("A", 64), I(8)>>, NoKwargs),
           OpCall("vload", <<I(0), Prm("A", 0)>>, NoKwargs),
           OpCall("vload", <<I(1), Prm("B", 8)>>, NoKwargs),
           OpCall("vadd", <<I(2), I(0), I(1)>>, NoKwargs),
           OpCall("vsub", <<I(3), I(0), I(1)>>, "scalar" :> 1),
           OpCall("vmul", <<I(4), I(2), I(3), I(1)>>, NoKwargs),
           OpCall("vrelu", <<I(5), I(4)>>, NoKwargs),
           OpCall("vmax", <<I(6), I(5), I(0)>>, NoKwargs),
           OpCall("vmin", <<I(7), I(6), I(1)>>, NoKwargs),
           OpCall("vstore", <<I(7), Prm("B", 16)>>, NoKwargs),
           OpCall("relu", <<Prm("A", 0), Prm("B", 0), Prm("A", 1)>>, NoKwargs),
           OpCall("relu_derivative", <<Prm("A", 1), Prm("B", 0), Prm("A", 2)>>, NoKwargs),
           OpCall("sub", <<Prm("A", 2), Prm("B", 1), Prm("A", 3)>>, NoKwargs),
           OpCall("mul", <<Prm("A", 3), Prm("B", 2), Prm("A", 4)>>, NoKwargs),
           OpCall("add", <<Prm("A", 4), Prm("B", 3), Prm("A", 5)>>, NoKwargs) >>)

TraceKernels == {matmul_4x4, matmul_8x8_tiled, vector_add, vector_add_simd, kernel_shapes}

\* calls of tpu_txt functions made outside any kernel
DirectCalls ==
    { OpCall("add", <<I(0), I(4), I(8)>>, NoKwargs),
      OpCall("matmul", <<I(0), I(16), I(32)>>, "m" :> 4) }

\* the innermost compile() in progress
Top == traces[Len(traces)]

\* what calling tpu_txt.<op> does to (tpu_txt, traces): the original function
\* logs, the capture function of a live InstructionCapture appends to its list
call_entry(call) ==
    LET target == tpu_txt.entry[call.op] IN
    IF target = 0 THEN
        [tpu_txt |-> [tpu_txt EXCEPT !.instruction_log =
                         log_instruction(@, call.op, logged_operands(call.op, call.args))],
         traces |-> traces]
    ELSE
        [tpu_txt |-> tpu_txt,
         traces |-> [t \in 1..Len(traces) |->
                        IF traces[t].id = target
                        THEN [traces[t] EXCEPT !.captured =
                                 Append(@, capture_fn(call.op, call.args, call.kwargs))]
                        ELSE traces[t]]]

\* KernelCompiler.compile up to and including InstructionCapture.__enter__
CompileBegin(kernel_def) ==
    /\ cur = "tracer"
    /\ traces = <<>>
    /\ nops < MaxCompiles
    /\ nops' = nops + 1
    /\ traces' = Append(traces,
                    [id |-> nops + 1, kernel |-> kernel_def, pc |-> 1, captured |-> <<>>,
                     original_functions |-> tpu_txt.entry])
    /\ tpu_txt' = [tpu_txt EXCEPT !.entry = [op \in ops_to_patch |-> nops + 1]]
    /\ last' = [op |-> "enter", kernel |-> kernel_def]
    /\ UNCHANGED <<asmVars, allocVars, progVars, driver, paramVars, cur>>

\* the kernel body issues its next operation
BodyOp ==
    /\ cur = "tracer"
    /\ traces # <<>>
    /\ Top.pc <= Len(Top.kernel.body)
    /\ \E r \in {call_entry(Top.kernel.body[Top.pc])} :
          /\ tpu_txt' = r.tpu_txt
          /\ traces' = [r.traces EXCEPT ![Len(traces)].pc = @ + 1]
    /\ last' = [op |-> "body", kernel |-> Top.kernel]
    /\ UNCHANGED <<asmVars, allocVars, progVars, driver, paramVars, cur, nops>>

\* the body returned: InstructionCapture.__exit__ and the CompiledKernel
CompileReturn ==
    /\ cur = "tracer"
    /\ traces # <<>>
    /\ Top.pc > Len(Top.kernel.body)
    /\ tpu_txt' = [tpu_txt EXCEPT !.entry = Top.original_functions]
    /\ traces' = SubSeq(traces, 1, Len(traces) - 1)
    /\ last' = [op |-> "compile", kernel |-> Top.kernel,
                ret |-> CompiledKernel(Top.kernel.name, Top.kernel.params, Top.captured)]
    /\ UNCHANGED <<asmVars, allocVars, progVars, driver, paramVars, cur, nops>>

\* a tpu_txt operation called outside any kernel
DirectOp(call) ==
    /\ cur = "tracer"
    /\ traces = <<>>
    /\ Len(tpu_txt.instruction_log) < MaxLog
    /\ \E r \in {call_entry(call)} :
          /\ tpu_txt' = r.tpu_txt
          /\ traces' = r.traces
    /\ last' = [op |-> "direct", call |-> call]
    /\ UNCHANGED <<asmVars, allocVars, progVars, driver, paramVars, cur, nops>>

InitTrace ==
    /\ AllocatorInit
    /\ ProgramIdle
    /\ DriverIdle
    /\ TraceIdle
    /\ AssemblerIdle
    /\ heap = <<>>
    /\ chain = <<>>
    /\ cur = "tracer"
    /\ last = NoLast
    /\ nops = 0

NextTrace ==
    \/ \E k \in TraceKernels : CompileBegin(k)
    \/ BodyOp
    \/ CompileReturn
    \/ \E call \in DirectCalls : DirectOp(call)

SpecTrace == InitTrace /\ [][NextTrace]_vars

(***************************************************************************)
(* Tracing claims                                                          *)
(***************************************************************************)
\* the m of a matmul call and the scalar of a vadd/vsub/vmul call, with defaults
MOf(call) ==
    IF Len(call.args) >= 4 THEN call.args[4].v
    ELSE IF "m" \in DOMAIN call.kwargs THEN call.kwargs["m"] ELSE 4

ScalarOf(call) ==
    IF Len(call.args) >= 4 THEN call.args[4].v
    ELSE IF "scalar" \in DOMAIN call.kwargs THEN call.kwargs["scalar"] ELSE 0

\* the SymbolicInstruction one issued operation is recorded as
Recorded(call) ==
    [op |-> call.op,
     operands |->
        IF call.op = "matmul"
        THEN <<call.args[1], call.args[2], call.args[3], I(MOf(call) * MOf(call))>>
        ELSE IF call.op \in {"vadd", "vsub", "vmul"}
        THEN <<call.args[1], call.args[2], call.args[3], I(ScalarOf(call))>>
        ELSE call.args]

C16_Captured ==
    /\ \A t \in 1..Len(traces) :
          traces[t].captured =
              [i \in 1..(traces[t].pc - 1) |-> Recorded(traces[t].kernel.body[i])]
    /\ last.op = "compile" =>
          /\ last.ret.name = last.kernel.name
          /\ last.ret.params = last.kernel.params
          /\ last.ret.instructions =
                [i \in 1..Len(last.kernel.body) |-> Recorded(last.kernel.body[i])]

C16_LogStep ==
    (traces # <<>> \/ traces' # <<>>) =>
        tpu_txt'.instruction_log = tpu_txt.instruction_log

\* C16: compiling a kernel records exactly one SymbolicInstruction per
\* operation the body issues, in issue order, matmul as (W,X,Z,m*m) with m
\* defaulting to 4, vadd/vsub/vmul as (dst,a,b,scalar) with scalar defaulting
\* to false, Param offsets kept; no step taken while the trace is active
\* changes instruction_log.
C16_TraceCapture == []C16_Captured /\ [][C16_LogStep]_vars

\* the shapes kernel compiled after instruction_log already held a line
C16_Witness ==
    /\ last.op = "compile"
    /\ last.kernel.name = "shapes"
    /\ Len(last.ret.instructions) = 16
    /\ last.ret.instructions[2].operands[4] = I(64)
    /\ last.ret.instructions[16].operands[2] = P("B", 3)
    /\ tpu_txt.instruction_log # <<>>

(***************************************************************************)
(* compiler/kernel.py : trace capture with compiles that overlap, from a   *)
(* kernel body that compiles another kernel or from two threads.  cur is   *)
(* the number of threads of the run.  A kernel body binds the operations   *)
(* it uses with "from compiler.tpu_txt import ..." when that statement     *)
(* runs, and calls what it bound.  __enter__ and __exit__ each run as one  *)
(* step.                                                                   *)
(***************************************************************************)
MaxThreads == 2

\* statements of a kernel body besides the tpu_txt operations
Import(names) == [op |-> "import", names |-> names]
Compile(kernel_def) == [op |-> "compile", kernel |-> kernel_def]
RaiseStmt == [op |-> "raise"]

IsOpCall(stmt) == stmt.op \in ops_to_patch

\* the tpu_txt operations a body issues itself, in order
own_ops(kernel_def) == [kernel_def EXCEPT !.body = SelectSeq(@, IsOpCall)]

\* test_kernel_resolution: from compiler.tpu_txt import add; add(A, B, C)
add_traced ==
    KernelFunction("add_kernel", <<"A", "B", "C">>,
        << Import({"add"}),
           OpCall("add", <<Prm("A", 0), Prm("B", 0), Prm("C", 0)>>, NoKwargs) >>)

\* the same shape with sub: from compiler.tpu_txt import sub; sub(A, B, C)
sub_traced ==
    KernelFunction("sub_kernel", <<"A", "B", "C">>,
        << Import({"sub"}),
           OpCall("sub", <<Prm("A", 0), Prm("B", 0), Prm("C", 0)>>, NoKwargs) >>)

\* a body that raises after its first operation
raising ==
    KernelFunction("raising", <<"A", "B", "C">>,
        << Import({"add"}),
           OpCall("add", <<Prm("A", 0), Prm("B", 0), Prm("C", 0)>>, NoKwargs),
           RaiseStmt,
           OpCall("add", <<Prm("A", 1), Prm("B", 1), Prm("C", 1)>>, NoKwargs) >>)

\* a body that compiles another kernel between its own operations
nesting(inner) ==
    KernelFunction("nesting", <<"A", "B", "C">>,
        << Import({"add"}),
           OpCall("add", <<Prm("A", 0), Prm("B", 0), Prm("C", 0)>>, NoKwargs),
           Compile(inner),
           OpCall("add", <<Prm("A", 1), Prm("B", 1), Prm("C", 1)>>, NoKwargs),
           Import({"mul"}),
           OpCall("mul", <<Prm("A", 2), Prm("B", 2), Prm("C", 2)>>, NoKwargs) >>)

\* what a run compiles: one thread nests, two threads overlap
NestKernels ==
    IF cur = 1 THEN {add_traced, sub_traced, raising, nesting(sub_traced), nesting(raising)}
    ELSE {add_traced, sub_traced, raising}

\* the compile() invocations of thread t that have not returned, outermost first
FramesOf(t) == {i \in 1..Len(traces) : traces[i].thread = t}

Max(S) == CHOOSE x \in S : \A y \in S : y <= x

TopOf(t) == Max(FramesOf(t))

\* the invocation whose body called the innermost one of thread t, or 0
ParentOf(t) ==
    IF Cardinality(FramesOf(t)) >= 2 THEN Max(FramesOf(t) \ {TopOf(t)}) ELSE 0

\* the statement thread t is about to run
StmtOf(t) ==
    LET f == traces[TopOf(t)] IN
    IF f.exc THEN RaiseStmt
    ELSE IF f.pc > Len(f.kernel.body) THEN [op |-> "return"]
    ELSE f.kernel.body[f.pc]

\* InstructionCapture.__enter__ of a new invocation in thread t
enter_frame(t, kernel_def, id) ==
    [id |-> id, thread |-> t, kernel |-> kernel_def, pc |-> 1, captured |-> <<>>,
     original_functions |-> tpu_txt.entry,
     imported |-> [op \in ops_to_patch |-> 0], nested |-> <<>>, exc |-> FALSE]

\* a capture identity no entry point and no invocation in progress refers to
NextId ==
    Max({0} \cup {tpu_txt.entry[op] : op \in ops_to_patch}
            \cup {traces[i].id : i \in 1..Len(traces)}
            \cup UNION {{traces[i].imported[op], traces[i].original_functions[op]} :
                           i \in 1..Len(traces), op \in ops_to_patch}) + 1

\* an __exit__ that rebinds the entry points to the functions tpu_txt defines
exit_to_defaults(f) == [op \in ops_to_patch |-> 0]

\* InstructionCapture.__exit__ : setattr(tpu_txt, op_name, original_fn)
exit_restore(f) == f.original_functions

\* a compile() that waits until no trace is active
ThreadCompile_locked(t, kernel_def) ==
    /\ cur \in 1..MaxThreads /\ t \in 1..cur
    /\ traces = <<>>
    /\ nops < MaxCompiles
    /\ nops' = nops + 1
    /\ \E id \in {NextId} :
          /\ traces' = Append(traces, enter_frame(t, kernel_def, id))
          /\ tpu_txt' = [tpu_txt EXCEPT !.entry = [op \in ops_to_patch |-> id]]
    /\ last' = [op |-> "enter", thread |-> t, kernel |-> kernel_def]
    /\ UNCHANGED <<asmVars, allocVars, progVars, driver, paramVars, cur>>

\* a thread calls KernelCompiler().compile(kernel_def)
ThreadCompile(t, kernel_def) ==
    /\ cur \in 1..MaxThreads /\ t \in 1..cur
    /\ FramesOf(t) = {}
    /\ nops < MaxCompiles
    /\ nops' = nops + 1
    /\ \E id \in {NextId} :
          /\ traces' = Append(traces, enter_frame(t, kernel_def, id))
          /\ tpu_txt' = [tpu_txt EXCEPT !.entry = [op \in ops_to_patch |-> id]]
    /\ last' = [op |-> "enter", thread |-> t, kernel |-> kernel_def]
    /\ UNCHANGED <<asmVars, allocVars, progVars, driver, paramVars, cur>>

\* from compiler.tpu_txt import <names>
BodyImport(t) ==
    /\ cur \in 1..MaxThreads /\ t \in 1..cur
    /\ FramesOf(t) # {}
    /\ StmtOf(t).op = "import"
    /\ traces' = [traces EXCEPT ![TopOf(t)] =
                     [@ EXCEPT !.pc = @ + 1,
                               !.imported = [op \in ops_to_patch |->
                                   IF op \in StmtOf(t).names THEN tpu_txt.entry[op]
                                   ELSE @[op]]]]
    /\ last' = [op |-> "import", thread |-> t]
    /\ UNCHANGED <<asmVars, allocVars, progVars, driver, paramVars, cur, nops, tpu_txt>>

\* the body calls an operation it imported: the function tpu_txt defines logs,
\* a capture function appends to the list of the InstructionCapture that made it
BodyCall(t) ==
    /\ cur \in 1..MaxThreads /\ t \in 1..cur
    /\ FramesOf(t) # {}
    /\ IsOpCall(StmtOf(t))
    /\ LET call   == StmtOf(t)
           target == traces[TopOf(t)].imported[call.op]
       IN /\ tpu_txt' =
                IF target = 0
                THEN [tpu_txt EXCEPT !.instruction_log =
                         log_instruction(@, call.op, logged_operands(call.op, call.args))]
                ELSE tpu_txt
          /\ traces' =
                [i \in 1..Len(traces) |->
                    [traces[i] EXCEPT
                        !.pc = IF i = TopOf(t) THEN @ + 1 ELSE @,
                        !.captured = IF traces[i].id = target
                                     THEN Append(@, capture_fn(call.op, call.args, call.kwargs))
                                     ELSE @]]
    /\ last' = [op |-> "body", thread |-> t]
    /\ UNCHANGED <<asmVars, allocVars, progVars, driver, paramVars, cur, nops>>

\* the body calls KernelCompiler().compile(inner)
BodyCompile(t) ==
    /\ cur \in 1..MaxThreads /\ t \in 1..cur
    /\ FramesOf(t) # {}
    /\ StmtOf(t).op = "compile"
    /\ \E id \in {NextId} :
          /\ traces' = Append(traces, enter_frame(t, StmtOf(t).kernel, id))
          /\ tpu_txt' = [tpu_txt EXCEPT !.entry = [op \in ops_to_patch |-> id]]
    /\ last' = [op |-> "enter", thread |-> t, kernel |-> StmtOf(t).kernel]
    /\ UNCHANGED <<asmVars, allocVars, progVars, driver, paramVars, cur, nops>>

\* traces without the innermost invocation of thread t, the calling body (if
\* any) resumed with the CompiledKernel or with the exception
popped(t, ret, raised) ==
    LET top == TopOf(t)
        par == ParentOf(t)
        kept == [i \in 1..Len(traces) |->
                    IF i # par THEN traces[i]
                    ELSE IF raised THEN [traces[i] EXCEPT !.exc = TRUE]
                    ELSE [traces[i] EXCEPT !.pc = @ + 1,
                                             !.nested = Append(@, [kernel |-> traces[top].kernel,
                                                                   ret |-> ret])]]
    IN SubSeq(kept, 1, top - 1) \o SubSeq(kept, top + 1, Len(kept))

\* the body returned: __exit__, then the CompiledKernel
ThreadReturn(t) ==
    /\ cur \in 1..MaxThreads /\ t \in 1..cur
    /\ FramesOf(t) # {}
    /\ StmtOf(t).op = "return"
    /\ LET f   == traces[TopOf(t)]
           ret == CompiledKernel(f.kernel.name, f.kernel.params, f.captured)
       IN /\ tpu_txt' = [tpu_txt EXCEPT !.entry = exit_restore(f)]
          /\ traces' = popped(t, ret, FALSE)
          /\ last' = [op |-> "compile", thread |-> t, kernel |-> f.kernel, raised |-> FALSE,
                      ret |-> ret, nested |-> f.nested, before |-> f.original_functions]
    /\ UNCHANGED <<asmVars, allocVars, progVars, driver, paramVars, cur, nops>>

\* an exception that leaves compile() without __exit__ being run
ThreadRaise_unrestored(t) ==
    /\ cur \in 1..MaxThreads /\ t \in 1..cur
    /\ FramesOf(t) # {}
    /\ StmtOf(t).op = "raise"
    /\ LET f == traces[TopOf(t)]
       IN /\ traces' = popped(t, f, TRUE)
          /\ last' = [op |-> "compile", thread |-> t, kernel |-> f.kernel, raised |-> TRUE,
                      nested |-> f.nested, before |-> f.original_functions]
    /\ UNCHANGED <<asmVars, allocVars, progVars, driver, paramVars, cur, nops, tpu_txt>>

\* the body raised, or a compile() it called did: __exit__ returns False and
\* the exception goes on to the caller
ThreadRaise(t) ==
    /\ cur \in 1..MaxThreads /\ t \in 1..cur
    /\ FramesOf(t) # {}
    /\ StmtOf(t).op = "raise"
    /\ LET f == traces[TopOf(t)]
       IN /\ tpu_txt' = [tpu_txt EXCEPT !.entry = exit_restore(f)]
          /\ traces' = popped(t, f, TRUE)
          /\ last' = [op |-> "compile", thread |-> t, kernel |-> f.kernel, raised |-> TRUE,
                      nested |-> f.nested, before |-> f.original_functions]
    /\ UNCHANGED <<asmVars, allocVars, progVars, driver, paramVars, cur, nops>>

InitNest ==
    /\ AllocatorInit
    /\ ProgramIdle
    /\ DriverIdle
    /\ TraceIdle
    /\ AssemblerIdle
    /\ heap = <<>>
    /\ chain = <<>>
    /\ cur \in 1..MaxThreads
    /\ last = NoLast
    /\ nops = 0

NextNest ==
    \/ \E t \in 1..MaxThreads, k \in NestKernels : ThreadCompile(t, k)
    \/ \E t \in 1..MaxThreads : BodyImport(t)
    \/ \E t \in 1..MaxThreads : BodyCall(t)
    \/ \E t \in 1..MaxThreads : BodyCompile(t)
    \/ \E t \in 1..MaxThreads : ThreadReturn(t)
    \/ \E t \in 1..MaxThreads : ThreadRaise(t)

SpecNest == InitNest /\ [][NextNest]_vars

(***************************************************************************)
(* Overlapping-trace claims                                                *)
(***************************************************************************)
\* the instruction list KernelCompiler.compile gives a kernel traced alone
TracedAlone(kernel_def) == KernelCompiler_compile(own_ops(kernel_def)).instructions

C23_NoExclusion ==
    \A t \in 1..MaxThreads :
        (cur \in 1..MaxThreads /\ t <= cur /\ FramesOf(t) = {} /\ nops < MaxCompiles) =>
            ENABLED ThreadCompile(t, add_traced)

C23_CallStep ==
    \A t \in 1..MaxThreads :
        (last'.op = "body" /\ last'.thread = t /\ FramesOf(t) # {} /\ traces' # traces) =>
            LET call   == StmtOf(t)
                target == traces[TopOf(t)].imported[call.op]
            IN \A i \in 1..Len(traces) :
                  traces'[i].captured =
                      IF traces[i].id = target
                      THEN Append(traces[i].captured, Recorded(call))
                      ELSE traces[i].captured

\* C23: nothing keeps a thread from entering compile() while another
\* thread's trace is active, and an operation a body issues is appended to
\* the list of whichever capture the entry point was bound to when the body
\* imported it, its own or another thread's, and to no other list.
C23_SharedEntryPoints == []C23_NoExclusion /\ [][C23_CallStep]_vars

\* two threads inside compile(): thread 1 has issued the add of add_kernel,
\* its own list is empty and the add is in the list of thread 2's sub_kernel
C23_Witness ==
    /\ cur = 2 /\ Len(traces) = 2
    /\ \E i, j \in 1..2 :
          /\ traces[i].thread = 1 /\ traces[i].kernel = add_traced
          /\ traces[i].pc = 3 /\ traces[i].captured = <<>>
          /\ traces[j].thread = 2 /\ traces[j].kernel = sub_traced
          /\ traces[j].captured = << Recorded(add_traced.body[2]) >>

NestedRun == cur = 1 /\ last.op = "compile" /\ ~last.raised /\ last.nested # <<>>

\* C24 as stated: when a body compiled another kernel in the same thread, at
\* least one of the two CompiledKernels differs from the kernel traced alone.
C24_NestedCorrupts ==
    NestedRun =>
        \/ last.ret.instructions # TracedAlone(last.kernel)
        \/ \E n \in 1..Len(last.nested) :
              last.nested[n].ret.instructions # TracedAlone(last.nested[n].kernel)

\* C24, amended: in one thread, a body that compiles another kernel while
\* its own trace is active gets that kernel's instruction list as traced
\* alone, and its own list holds exactly its own operations, those issued
\* after the inner compile included.
C24_NestedIntact ==
    NestedRun =>
        /\ last.ret.instructions = TracedAlone(last.kernel)
        /\ \A n \in 1..Len(last.nested) :
              /\ last.nested[n].ret.name = last.nested[n].kernel.name
              /\ last.nested[n].ret.instructions = TracedAlone(last.nested[n].kernel)

\* the nesting kernel returned with three operations of its own, having
\* compiled sub_kernel after the first
C24_Witness ==
    /\ NestedRun
    /\ last.kernel = nesting(sub_traced)
    /\ Len(last.ret.instructions) = 3
    /\ last.nested[1].ret.instructions = << Recorded(sub_traced.body[2]) >>

Defaults == [op \in ops_to_patch |-> 0]

C29_Restored ==
    cur = 1 =>
        /\ traces = <<>> => tpu_txt.entry = Defaults
        /\ last.op = "compile" => tpu_txt.entry = last.before
        /\ (last.op = "compile" /\ ~last.raised) =>
               last.ret.instructions = TracedAlone(last.kernel)

C29_ExitStep ==
    (cur = 1 /\ last'.op = "compile" /\ Len(traces') < Len(traces)) =>
        tpu_txt'.entry = traces[Len(traces)].original_functions

\* C29: with the traces of one thread only, when compile() returns or lets an
\* exception of the body through, every patched entry point is bound to what
\* it was bound to when the call began (the functions tpu_txt defines, for a
\* compile not called from a body), and a compile that returns afterwards
\* has captured exactly its own operations.
C29_EntryPointsRestored == []C29_Restored /\ [][C29_ExitStep]_vars

\* a second compile has let the exception of a kernel compiled inside its
\* body through; no trace is left and the entry points are tpu_txt's own
C29_Witness ==
    /\ cur = 1 /\ nops = 2
    /\ last.op = "compile" /\ last.raised
    /\ last.kernel = nesting(raising)
    /\ traces = <<>>
    /\ tpu_txt.entry = Defaults

(***************************************************************************)
(* compiler/tpu_txt.py : tiled_matmul, called outside any kernel with      *)
(* integer addresses, on a MemoryAllocator with some history               *)
(***************************************************************************)
MaxHistory == 2

\* temp_addr=None / allocator=None
None == -1

SCRATCH == "_tiled_matmul_temp"

RECURSIVE Concat(_)
Concat(ss) == IF ss = <<>> THEN <<>> ELSE Head(ss) \o Concat(Tail(ss))

\* an accumulation that stops one element short of the tile
accumulate_short(Z_tile_addr, temp_addr, t2) ==
    [e \in 1..(t2 - 1) |->
        OpCall("add", <<I(Z_tile_addr + (e - 1)), I(temp_addr + (e - 1)),
                        I(Z_tile_addr + (e - 1))>>, NoKwargs)]

\* for elem in range(t2): add(Z_tile_addr + elem, temp_addr + elem, Z_tile_addr + elem)
accumulate(Z_tile_addr, temp_addr, t2) ==
    [e \in 1..t2 |->
        OpCall("add", <<I(Z_tile_addr + (e - 1)), I(temp_addr + (e - 1)),
                        I(Z_tile_addr + (e - 1))>>, NoKwargs)]

\* the body of the k loop: the calls one contraction step makes
contraction_step(W_addr, X_addr, Z_tile_addr, temp_addr, i, j, k, K_tiles, t) ==
    LET t2 == t * t
        X_tile_addr == X_addr + (i * K_tiles + k) * t2
        W_tile_addr == W_addr + (j * K_tiles + k) * t2
    IN IF k = 0 THEN
           << OpCall("matmul", <<I(W_tile_addr), I(X_tile_addr), I(Z_tile_addr)>>, "m" :> t) >>
       ELSE
           << OpCall("matmul", <<I(W_tile_addr), I(X_tile_addr), I(temp_addr)>>, "m" :> t) >>
           \o accumulate(Z_tile_addr, temp_addr, t2)

\* the body of the j loop: the calls made for output tile (i, j)
output_tile(W_addr, X_addr, Z_addr, temp_addr, i, j, N_tiles, K_tiles, t) ==
    Concat([kk \in 1..K_tiles |->
        contraction_step(W_addr, X_addr, Z_addr + (i * N_tiles + j) * (t * t),
                         temp_addr, i, j, kk - 1, K_tiles, t)])

\* the triple loop: every call it makes, in order (range() of a negative
\* count is empty, as 1..n is)
tile_loops(W_addr, X_addr, Z_addr, temp_addr, M_tiles, N_tiles, K_tiles, t) ==
    Concat([ii \in 1..M_tiles |->
        Concat([jj \in 1..N_tiles |->
            output_tile(W_addr, X_addr, Z_addr, temp_addr, ii - 1, jj - 1,
                        N_tiles, K_tiles, t)])])

\* the calls reach matmul() and add() as the module defines them: each appends
\* its line to the log
log_calls(log, cs) ==
    log \o [n \in 1..Len(cs) |->
                log_instruction(<<>>, cs[n].op, logged_operands(cs[n].op, cs[n].args))[1]]

allocator_of(r) == [next_free_addr |-> r.next_free_addr,
                    memory_map |-> r.memory_map,
                    free_list |-> r.free_list]

tiled_outcome(raised, err, A, log) ==
    [raised |-> raised, err |-> err, allocator |-> A, log |-> log]

\* tiled_matmul from the triple loop on: emit, then free the scratch name
\* whenever an allocator was passed
tiled_run(A, log, W_addr, X_addr, Z_addr, M, N, K, t, temp_addr, has_allocator) ==
    tiled_outcome(FALSE, "",
        IF has_allocator THEN allocator_of(free(A, SCRATCH)) ELSE A,
        log_calls(log, tile_loops(W_addr, X_addr, Z_addr, temp_addr,
                                  M \div t, N \div t, K \div t, t)))

\* "Handle temp buffer", given what allocator.alloc did
tiled_with_scratch(r, log, W_addr, X_addr, Z_addr, M, N, K, t) ==
    IF r.raised THEN tiled_outcome(TRUE, "MemoryError", allocator_of(r), log)
    ELSE tiled_run(allocator_of(r), log, W_addr, X_addr, Z_addr, M, N, K, t, r.ret, TRUE)

\* tiled_matmul(W_addr, X_addr, Z_addr, M, N, K, tile_size, temp_addr, allocator)
\* on the allocator state A (has_allocator: allocator is not None), tile_size > 0
tiled_matmul(A, log, W_addr, X_addr, Z_addr, M, N, K, tile_size, temp_addr, has_allocator) ==
    IF M % tile_size # 0 THEN tiled_outcome(TRUE, "ValueError: M", A, log)
    ELSE IF N % tile_size # 0 THEN tiled_outcome(TRUE, "ValueError: N", A, log)
    ELSE IF K % tile_size # 0 THEN tiled_outcome(TRUE, "ValueError: K", A, log)
    ELSE IF temp_addr = None THEN
        IF has_allocator
        THEN tiled_with_scratch(alloc(A, SCRATCH, tile_size * tile_size), log,
                                W_addr, X_addr, Z_addr, M, N, K, tile_size)
        ELSE tiled_outcome(TRUE, "ValueError: temp", A, log)
    ELSE tiled_run(A, log, W_addr, X_addr, Z_addr, M, N, K, tile_size,
                   temp_addr, has_allocator)

\* what the caller did with the allocator before
HistoryOps ==
    {[op |-> "alloc", name |-> n, words |-> w] : n \in {"X", SCRATCH}, w \in {16, 64, 8184}}
    \cup {[op |-> "free", name |-> n, words |-> 0] : n \in {"X", SCRATCH}}

TiledHistories == UNION {[1..n -> HistoryOps] : n \in 0..MaxHistory}

RECURSIVE run_history(_, _, _)
run_history(A, h, n) ==
    IF n > Len(h) THEN A
    ELSE run_history(IF h[n].op = "alloc"
                     THEN allocator_of(alloc(A, h[n].name, h[n].words))
                     ELSE allocator_of(free(A, h[n].name)),
                     h, n + 1)

FreshAllocator == [next_free_addr |-> 0, memory_map |-> EmptyMap, free_list |-> <<>>]

TiledDims == {4, 6, 8}
TiledTiles == {2, 4}
TiledBases == {<<0, 64, 128>>, <<512, 1024, 2048>>}
TiledTemps == {None, 192}

TiledMatmul ==
    /\ cur = "tiled" /\ last = NoLast
    /\ \E base \in TiledBases, M \in TiledDims, N \in TiledDims, K \in TiledDims,
          tile_size \in TiledTiles, temp_addr \in TiledTemps, has_allocator \in BOOLEAN :
        \E r \in {tiled_matmul(Allocator, tpu_txt.instruction_log, base[1], base[2], base[3],
                               M, N, K, tile_size, temp_addr, has_allocator)} :
            /\ next_free_addr' = r.allocator.next_free_addr
            /\ memory_map' = r.allocator.memory_map
            /\ free_list' = r.allocator.free_list
            /\ tpu_txt' = [tpu_txt EXCEPT !.instruction_log = r.log]
            /\ last' = [op |-> "tiled_matmul",
                        args |-> [W_addr |-> base[1], X_addr |-> base[2], Z_addr |-> base[3],
                                  M |-> M, N |-> N, K |-> K, tile_size |-> tile_size,
                                  temp_addr |-> temp_addr, has_allocator |-> has_allocator],
                        raised |-> r.raised, err |-> r.err]
    /\ UNCHANGED <<asmVars, progVars, driver, paramVars, traces, cur, nops>>

InitTiled ==
    /\ \E h \in TiledHistories : \E A \in {run_history(FreshAllocator, h, 1)} :
          /\ next_free_addr = A.next_free_addr
          /\ memory_map = A.memory_map
          /\ free_list = A.free_list
    /\ ProgramIdle
    /\ DriverIdle
    /\ TraceIdle
    /\ AssemblerIdle
    /\ heap = <<>>
    /\ chain = <<>>
    /\ cur = "tiled"
    /\ last = NoLast
    /\ nops = 0

NextTiled == TiledMatmul

SpecTiled == InitTiled /\ [][NextTiled]_vars

(***************************************************************************)
(* tiled_matmul claims                                                     *)
(***************************************************************************)
TiledDone == last.op = "tiled_matmul" /\ ~last.raised

\* the scratch address the call used: the caller's, or the block the
\* allocator handed out, which free() put last on the free list
TempOf == IF last.args.temp_addr # None THEN last.args.temp_addr
          ELSE free_list[Len(free_list)][1]

LogLine(op, a, b, c) == [op |-> op, operands |-> <<I(a), I(b), I(c)>>]

TileLayout(log, W, X, Z, temp, M_t, N_t, K_t, t2) ==
    LET per == 1 + (K_t - 1) * (1 + t2) IN
    /\ Len(log) = M_t * N_t * per
    /\ \A i \in 0..(M_t - 1), j \in 0..(N_t - 1) :
        LET p == (i * N_t + j) * per + 1
            Z_tile == Z + (i * N_t + j) * t2
        IN /\ log[p] = LogLine("matmul", W + (j * K_t) * t2, X + (i * K_t) * t2, Z_tile)
           /\ \A k \in 1..(K_t - 1) :
                LET q == p + 1 + (k - 1) * (1 + t2) IN
                /\ log[q] = LogLine("matmul", W + (j * K_t + k) * t2,
                                    X + (i * K_t + k) * t2, temp)
                /\ \A e \in 0..(t2 - 1) :
                      log[q + 1 + e] = LogLine("add", Z_tile + e, temp + e, Z_tile + e)

\* C17: for M, N, K divisible by t, tiled_matmul emits the output tiles in
\* row-major order; each tile is one matmul into Z_tile and then, for every
\* k = 1..K_t-1, one matmul into temp immediately followed by the t^2 adds
\* add(Z_tile+e, temp+e, Z_tile+e), e = 0..t^2-1; the total count is
\* M_t*N_t*(1 + (K_t-1)*(1+t^2)), which is 72 for 8x8x8 with t = 4.
C17_TiledEmission ==
    TiledDone =>
        LET a == last.args
            t == a.tile_size
        IN /\ TileLayout(tpu_txt.instruction_log, a.W_addr, a.X_addr, a.Z_addr, TempOf,
                         a.M \div t, a.N \div t, a.K \div t, t * t)
           /\ (a.M = 8 /\ a.N = 8 /\ a.K = 8 /\ t = 4)
                 => Len(tpu_txt.instruction_log) = 72

\* a call with three contraction steps per tile and an allocator-owned scratch
C17_Witness ==
    /\ TiledDone
    /\ last.args.M = 8 /\ last.args.N = 4 /\ last.args.K = 6 /\ last.args.tile_size = 2
    /\ last.args.temp_addr = None /\ last.args.has_allocator
    /\ Len(tpu_txt.instruction_log) = 88
    /\ tpu_txt.instruction_log[88].op = "add"

TiledOwned ==
    /\ last'.op = "tiled_matmul"
    /\ last'.args.has_allocator /\ last'.args.temp_addr = None

DimensionError == last'.raised /\ last'.err \in {"ValueError: M", "ValueError: N", "ValueError: K"}

\* C18: tiled_matmul called with an allocator and no temp_addr leaves
\* memory_map (and so used()) as it was before the call in every outcome; a
\* dimension error is raised before anything is allocated or emitted.
C18_MemoryMapUnchanged ==
    [][TiledOwned =>
          /\ memory_map' = memory_map
          /\ used(memory_map') = used(memory_map)
          /\ DimensionError =>
                /\ UNCHANGED allocVars
                /\ tpu_txt'.instruction_log = tpu_txt.instruction_log]_vars

(***************************************************************************)
(* compiler/assembler.py : the text path, assemble_line and assemble_file. *)
(* A str is the sequence of its characters.                                *)
(***************************************************************************)
Whitespace == {" ", "\t", "\n", "\r"}

MinOf(S) == CHOOSE x \in S : \A y \in S : x <= y
MaxOf(S) == CHOOSE x \in S : \A y \in S : y <= x

\* str.strip()
strip(s) ==
    LET keep == {i \in 1..Len(s) : s[i] \notin Whitespace} IN
    IF keep = {} THEN <<>> ELSE SubSeq(s, MinOf(keep), MaxOf(keep))

\* str.rstrip(",")
rstrip_comma(s) ==
    LET keep == {i \in 1..Len(s) : s[i] # ","} IN
    IF keep = {} THEN <<>> ELSE SubSeq(s, 1, MaxOf(keep))

\* str.startswith(prefix)
startswith(s, prefix) == Len(s) >= Len(prefix) /\ SubSeq(s, 1, Len(prefix)) = prefix

\* str.lower()
Upper == <<"A", "B", "C", "D", "E", "F", "G", "H", "I", "J", "K", "L", "M",
           "N", "O", "P", "Q", "R", "S", "T", "U", "V", "W", "X", "Y", "Z">>
Lower == <<"a", "b", "c", "d", "e", "f", "g", "h", "i", "j", "k", "l", "m",
           "n", "o", "p", "q", "r", "s", "t", "u", "v", "w", "x", "y", "z">>

lower_char(c) ==
    IF \E i \in 1..26 : Upper[i] = c THEN Lower[CHOOSE i \in 1..26 : Upper[i] = c] ELSE c

lower(s) == [i \in 1..Len(s) |-> lower_char(s[i])]

\* str.split(): the maximal runs of non-whitespace characters, in order
RECURSIVE split(_)
split(s) ==
    LET t == strip(s) IN
    IF t = <<>> THEN <<>>
    ELSE LET ws == {i \in 1..Len(t) : t[i] \in Whitespace} IN
         IF ws = {} THEN <<t>>
         ELSE <<SubSeq(t, 1, MinOf(ws) - 1)>> \o split(SubSeq(t, MinOf(ws), Len(t)))

\* str.split(maxsplit=1) of a stripped, non-empty line
split_maxsplit1(t) ==
    LET ws == {i \in 1..Len(t) : t[i] \in Whitespace} IN
    IF ws = {} THEN <<t>>
    ELSE <<SubSeq(t, 1, MinOf(ws) - 1), strip(SubSeq(t, MinOf(ws), Len(t)))>>

\* str.split(",", maxsplit)
RECURSIVE split_comma(_, _)
split_comma(s, maxsplit) ==
    LET commas == {i \in 1..Len(s) : s[i] = ","} IN
    IF maxsplit = 0 \/ commas = {} THEN <<s>>
    ELSE <<SubSeq(s, 1, MinOf(commas) - 1)>>
         \o split_comma(SubSeq(s, MinOf(commas) + 1, Len(s)), maxsplit - 1)

DecDigits == <<"0", "1", "2", "3", "4", "5", "6", "7", "8", "9">>
HexLower  == <<"0", "1", "2", "3", "4", "5", "6", "7", "8", "9",
               "a", "b", "c", "d", "e", "f">>

digit_value(c, digits) == (CHOOSE i \in 1..Len(digits) : digits[i] = c) - 1

is_digits(s, digits) ==
    /\ s # <<>>
    /\ \A i \in 1..Len(s) : \E d \in 1..Len(digits) : digits[d] = s[i]

RECURSIVE digits_value(_, _, _)
digits_value(s, digits, base) ==
    IF s = <<>> THEN 0
    ELSE digits_value(SubSeq(s, 1, Len(s) - 1), digits, base) * base
         + digit_value(s[Len(s)], digits)

\* int(tok): an optional sign and decimal digits (digit-group underscores
\* are not modelled)
int10(tok) ==
    LET signed == tok # <<>> /\ tok[1] \in {"+", "-"}
        body   == IF signed THEN Tail(tok) ELSE tok
    IN IF ~is_digits(body, DecDigits) THEN Raise("ValueError: invalid literal for int()")
       ELSE Ok((IF signed /\ tok[1] = "-" THEN -1 ELSE 1) * digits_value(body, DecDigits, 10))

\* int(tok, 16) of a token that starts with 0x or 0X
int16(tok) ==
    LET body == lower(SubSeq(tok, 3, Len(tok))) IN
    IF ~is_digits(body, HexLower) THEN Raise("ValueError: invalid literal for int()")
    ELSE Ok(digits_value(body, HexLower, 16))

parse_int_token(tok0) ==
    LET tok == rstrip_comma(strip(tok0)) IN
    IF startswith(tok, <<"0", "x">>) \/ startswith(tok, <<"0", "X">>) THEN int16(tok)
    ELSE int10(tok)

\* ast.literal_eval of the values of a load line: a bracketed list, kept as
\* the texts of its elements
literal_eval(text) ==
    IF Len(text) >= 2 /\ text[1] = "[" /\ text[Len(text)] = "]" THEN
        LET inner == strip(SubSeq(text, 2, Len(text) - 1)) IN
        IF inner = <<>> THEN Ok(<<>>)
        ELSE LET elems == split_comma(inner, Len(inner)) IN
             Ok([i \in 1..Len(elems) |-> strip(elems[i])])
    ELSE Raise("ValueError: malformed node or string")

\* the op names the assembler knows, as text
OpText ==
    [add |-> <<"a", "d", "d">>, sub |-> <<"s", "u", "b">>, relu |-> <<"r", "e", "l", "u">>, mul |-> <<"m", "u", "l">>,
     relu_derivative |-> <<"r", "e", "l", "u", "_", "d", "e", "r", "i", "v", "a", "t", "i", "v", "e">>, matmul |-> <<"m", "a", "t", "m", "u", "l">>,
     halt |-> <<"h", "a", "l", "t">>, load |-> <<"l", "o", "a", "d">>, store |-> <<"s", "t", "o", "r", "e">>]

\* the op as a name: the known name with this text, "" for any other text
op_name(text) ==
    IF \E n \in DOMAIN OpText : OpText[n] = text
    THEN CHOOSE n \in DOMAIN OpText : OpText[n] = text
    ELSE ""

\* what assemble_line did: it raised, or it returned a word (words = <<w>>) or
\* None (words = <<>>) and appended loads to LOADS and stores to STORES
line_outcome(raised, err, words, loads, stores) ==
    [raised |-> raised, err |-> err, words |-> words, loads |-> loads, stores |-> stores]

line_raises(err) == line_outcome(TRUE, err, <<>>, <<>>, <<>>)

line_encoded(r) ==
    IF r.ok THEN line_outcome(FALSE, "", <<r.val>>, <<>>, <<>>) ELSE line_raises(r.err)

\* "LOAD HANDLING", given parts
assemble_load(parts) ==
    IF Len(parts) < 2 THEN line_raises("IndexError")
    ELSE LET f == split_comma(parts[2], 2) IN
         IF Len(f) # 3 THEN line_raises("ValueError: not enough values to unpack")
         ELSE LET addr   == parse_int_token(f[1])
                  length == parse_int_token(f[2])
                  vals   == literal_eval(strip(f[3]))
              IN IF ~addr.ok THEN line_raises(addr.err)
                 ELSE IF ~length.ok THEN line_raises(length.err)
                 ELSE IF ~vals.ok THEN line_raises(vals.err)
                 ELSE line_outcome(FALSE, "", <<>>,
                                   << <<addr.val, length.val, vals.val>> >>, <<>>)

\* "STORE HANDLING", given parts
assemble_store(parts) ==
    IF Len(parts) < 2 THEN line_raises("IndexError")
    ELSE LET f == split_comma(parts[2], 2) IN
         IF Len(f) # 3 THEN line_raises("ValueError: not enough values to unpack")
         ELSE LET addr   == parse_int_token(f[1])
                  length == parse_int_token(f[2])
              IN IF ~addr.ok THEN line_raises(addr.err)
                 ELSE IF ~length.ok THEN line_raises(length.err)
                 ELSE line_outcome(FALSE, "", <<>>, <<>>,
                                   << <<addr.val, length.val, strip(f[3])>> >>)

\* an instruction line, given the op and the parsed operand tokens
assemble_instruction(op, operands, matmul_len) ==
    IF \E i \in 1..Len(operands) : ~operands[i].ok
    THEN line_raises("ValueError: invalid literal for int()")
    ELSE IF op = "matmul" THEN
        IF Len(operands) # 3 THEN line_raises("ValueError: matmul expects 3 operands")
        ELSE line_encoded(encode_systolic(operands[1].val, operands[2].val,
                                          operands[3].val, matmul_len))
    ELSE IF op = "halt" THEN line_outcome(FALSE, "", <<encode_halt>>, <<>>, <<>>)
    ELSE IF op \in DOMAIN OPCODES_VPU THEN
        IF Len(operands) # 3 THEN line_raises("ValueError: op expects 3 operands")
        ELSE line_encoded(encode_vpu(op, operands[1].val, operands[2].val,
                                     operands[3].val, 0))
    ELSE line_raises("ValueError: Unknown op")

\* assemble_line(line, matmul_len)
assemble_line(line0, matmul_len) ==
    LET line == strip(line0) IN
    IF line = <<>> \/ startswith(line, <<"#">>) THEN line_outcome(FALSE, "", <<>>, <<>>, <<>>)
    ELSE LET parts == split_maxsplit1(line)
             op    == op_name(lower(parts[1]))
         IN IF op = "load" THEN assemble_load(parts)
            ELSE IF op = "store" THEN assemble_store(parts)
            ELSE LET tokens == split(line) IN
                 assemble_instruction(op,
                     [i \in 1..(Len(tokens) - 1) |-> parse_int_token(tokens[i + 1])],
                     matmul_len)

\* f"{word:016X}\n"
hex_line(word) == Append(format_016X(word), "\n")

OUTPUT_PATH == "out.txt"
HOST_PATH   == "test_generated.py"

\* generate_host_py: the template with repr(loads) and repr(stores) filled in
host_py(loads, stores) == [LOADS |-> loads, STORES |-> stores]

FilePut(fs, path, content) ==
    [p \in (DOMAIN fs) \cup {path} |-> IF p = path THEN content ELSE fs[p]]

IsRecordedLoad(r)  == r.loads # <<>>
IsRecordedStore(r) == r.stores # <<>>
IsEncoded(r)       == r.words # <<>>

\* what the calls of assemble_line appended to LOADS / STORES / assembled_words
appended_loads(rs) ==
    LET sel == SelectSeq(rs, IsRecordedLoad) IN [i \in 1..Len(sel) |-> sel[i].loads[1]]

appended_stores(rs) ==
    LET sel == SelectSeq(rs, IsRecordedStore) IN [i \in 1..Len(sel) |-> sel[i].stores[1]]

appended_words(rs) ==
    LET sel == SelectSeq(rs, IsEncoded) IN [i \in 1..Len(sel) |-> sel[i].words[1]]

asm_outcome(raised, err, loads, stores, fs) ==
    [raised |-> raised, err |-> err, LOADS |-> loads, STORES |-> stores, files |-> fs]

\* a limit check that already rejects a full instruction memory
imem_overflow_when_full(assembled_words) == Len(assembled_words) >= IMEM_MAX_SIZE

\* len(assembled_words) > IMEM_MAX_SIZE
imem_overflow(assembled_words) == Len(assembled_words) > IMEM_MAX_SIZE

\* assemble_file once every line was assembled: HALT, the limit, the two files
assemble_finish(fs, loads, stores, assembled_words) ==
    IF imem_overflow(assembled_words)
    THEN asm_outcome(TRUE, "CompilationError", loads, stores, fs)
    ELSE asm_outcome(FALSE, "", loads, stores,
            FilePut(FilePut(fs, OUTPUT_PATH,
                            [i \in 1..Len(assembled_words) |-> hex_line(assembled_words[i])]),
                    HOST_PATH, host_py(loads, stores)))

\* the loop of assemble_file over the outcomes rs of its lines; the first
\* line that raises ends it
assemble_loop(fs, rs) ==
    LET bad == {i \in 1..Len(rs) : rs[i].raised} IN
    IF bad # {} THEN
        asm_outcome(TRUE, rs[MinOf(bad)].err,
                    appended_loads(SubSeq(rs, 1, MinOf(bad) - 1)),
                    appended_stores(SubSeq(rs, 1, MinOf(bad) - 1)), fs)
    ELSE assemble_finish(fs, appended_loads(rs), appended_stores(rs),
                         Append(appended_words(rs), encode_halt))

\* assemble_file(input_path, output_path, matmul_len), lines being what
\* readlines() returns; LOADS and STORES are cleared first
assemble_file(fs, lines, matmul_len) ==
    assemble_loop(fs, [i \in 1..Len(lines) |-> assemble_line(lines[i], matmul_len)])

\* ---- input files ----
LineText ==
    [add      |-> <<"a", "d", "d", " ", "0", ",", " ", "4", ",", " ", "8", "\n">>,
     matmul   |-> <<"m", "a", "t", "m", "u", "l", " ", "0", " ", "1", "6", " ", "3", "2", "\n">>,
     relu_hex |-> <<" ", " ", "R", "E", "L", "U", " ", "0", "x", "1", "0", ",", " ", "0", ",", " ", "0", "X", "2", "a", "\n">>,
     halt     |-> <<"h", "a", "l", "t", "\n">>,
     blank    |-> <<"\n">>,
     spaces   |-> <<" ", " ", "\t", " ", "\n">>,
     comment  |-> <<"#", " ", "a", "d", "d", " ", "1", " ", "2", " ", "3", "\n">>,
     indented |-> <<" ", " ", " ", "#", "\n">>,
     load     |-> <<"l", "o", "a", "d", " ", "0", ",", " ", "2", ",", " ", "[", "1", ".", "0", ",", " ", "2", ".", "0", "]", "\n">>,
     store    |-> <<"S", "t", "o", "r", "e", " ", "3", "2", ",", " ", "1", "6", ",", " ", "Z", "_", "o", "u", "t", "\n">>,
     unknown  |-> <<"n", "o", "p", " ", "1", " ", "2", " ", "3", "\n">>,
     short    |-> <<"a", "d", "d", " ", "1", " ", "2", "\n">>,
     range    |-> <<"s", "u", "b", " ", "0", ",", " ", "0", ",", " ", "8", "1", "9", "2", "\n">>,
     negative |-> <<"m", "u", "l", " ", "-", "1", ",", " ", "0", ",", " ", "0", "\n">>,
     trailing |-> <<"a", "d", "d", " ", "1", " ", "2", " ", "3", " ", "#", " ", "s", "u", "m", "\n">>,
     badload  |-> <<"l", "o", "a", "d", " ", "0", ",", " ", "2", "\n">>]

InstructionKinds == {"add", "matmul", "relu_hex", "halt"}
SilentKinds      == {"blank", "spaces", "comment", "indented", "load", "store"}
PairKinds        == {"add", "matmul", "halt", "blank", "comment", "load", "store"}

InputPatterns ==
    {<<k>> : k \in DOMAIN LineText} \cup {<<k1, k2>> : k1 \in PairKinds, k2 \in PairKinds}

InputSizes ==
    {0, 1, 3, IMEM_MAX_SIZE - 1, IMEM_MAX_SIZE, IMEM_MAX_SIZE + 4,
     2 * IMEM_MAX_SIZE - 2, 2 * IMEM_MAX_SIZE}

KindAt(pattern, i) == pattern[((i - 1) % Len(pattern)) + 1]

InputLines(pattern, n) == [i \in 1..n |-> LineText[KindAt(pattern, i)]]

\* what an earlier run left behind
StaleFiles ==
    (OUTPUT_PATH :> <<hex_line(encode_halt)>>) @@ (HOST_PATH :> host_py(<<>>, <<>>))

StaleLoads == << <<0, 1, << <<"9", ".", "0">> >> >> >>

AssembleFile ==
    /\ cur = "assembler" /\ last = NoLast
    /\ \E pattern \in InputPatterns, n \in InputSizes, matmul_len \in {16} :
        \E r \in {assemble_file(files, InputLines(pattern, n), matmul_len)} :
            /\ LOADS' = r.LOADS
            /\ STORES' = r.STORES
            /\ files' = r.files
            /\ last' = [op |-> "assemble_file", pattern |-> pattern, n |-> n,
                        raised |-> r.raised, err |-> r.err]
    /\ UNCHANGED <<allocVars, progVars, driver, paramVars, traceVars, cur, nops>>

InitAsm ==
    /\ AllocatorInit
    /\ ProgramIdle
    /\ DriverIdle
    /\ TraceIdle
    /\ LOADS \in {<<>>, StaleLoads}
    /\ STORES = <<>>
    /\ files \in {[p \in {} |-> <<>>], StaleFiles}
    /\ heap = <<>>
    /\ chain = <<>>
    /\ cur = "assembler"
    /\ last = NoLast
    /\ nops = 0

NextAsm == AssembleFile

SpecAsm == InitAsm /\ [][NextAsm]_vars

(***************************************************************************)
(* assemble_file claims                                                    *)
(***************************************************************************)
AsmDone == last.op = "assemble_file"

InputKinds == [i \in 1..last.n |-> KindAt(last.pattern, i)]

IsInstructionKind(k) == k \in InstructionKinds
IsLoadKind(k)        == k = "load"
IsStoreKind(k)       == k = "store"

\* every line of the input is an instruction line or one that gives no word
WellFormed == \A i \in 1..last.n : InputKinds[i] \in InstructionKinds \cup SilentKinds

\* the word each instruction line stands for, from the encoders
ExpectedWord ==
    [add      |-> encode_vpu("add", 0, 4, 8, 0).val,
     matmul   |-> encode_systolic(0, 16, 32, 16).val,
     relu_hex |-> encode_vpu("relu", 16, 0, 42, 0).val,
     halt     |-> encode_halt]

C20_Words ==
    (AsmDone /\ WellFormed) =>
        LET instr == SelectSeq(InputKinds, IsInstructionKind) IN
        /\ last.raised <=> Len(instr) + 1 > 256
        /\ last.raised => last.err = "CompilationError"
        /\ ~last.raised =>
              /\ OUTPUT_PATH \in DOMAIN files
              /\ Len(files[OUTPUT_PATH]) = Len(instr) + 1
              /\ \A j \in 1..Len(instr) :
                    files[OUTPUT_PATH][j] = hex_line(ExpectedWord[instr[j]])
              /\ files[OUTPUT_PATH][Len(instr) + 1] = hex_line(encode_halt)
        /\ Len(LOADS) = Len(SelectSeq(InputKinds, IsLoadKind))
        /\ Len(STORES) = Len(SelectSeq(InputKinds, IsStoreKind))

C20_NoWriteOnRaise ==
    (last'.op = "assemble_file" /\ last'.raised) => files' = files

\* C20: assemble_file gives one word per instruction line (blank, comment
\* and load/store lines give none; load/store only record a directive) plus
\* one HALT, raises the overflow error exactly when that total exceeds 256
\* (255 instruction lines give 256 words, 256 or more raise), and writes no
\* instruction file when it raises.
C20_AssembleFile == []C20_Words /\ [][C20_NoWriteOnRaise]_vars

\* 255 instruction lines among 510 lines filled the instruction memory
C20_Witness ==
    /\ AsmDone /\ ~last.raised
    /\ last.n = 2 * IMEM_MAX_SIZE - 2
    /\ Len(SelectSeq(InputKinds, IsInstructionKind)) = IMEM_MAX_SIZE - 1
    /\ Len(files[OUTPUT_PATH]) = IMEM_MAX_SIZE
    /\ Len(LOADS) + Len(STORES) > 0

(***************************************************************************)
(* The text path (tpu_txt log lines through assemble_line) and the kernel  *)
(* path (trace, then resolve) on the same sequence of operations.  cur is  *)
(* the sequence; last collects what each path returned.                    *)
(***************************************************************************)
MaxSeq == 2

\* str(n) of an int
RECURSIVE str_int(_)
str_int(n) ==
    IF n < 0 THEN <<"-">> \o str_int(-n)
    ELSE IF n < 10 THEN <<DecDigits[n + 1]>>
    ELSE str_int(n \div 10) \o <<DecDigits[(n % 10) + 1]>>

\* format(n, 'x')
RECURSIVE hex_int(_)
hex_int(n) ==
    IF n < 16 THEN <<HexLower[n + 1]>>
    ELSE hex_int(n \div 16) \o <<HexLower[(n % 16) + 1]>>

\* ', '.join(texts)
RECURSIVE join_comma(_)
join_comma(texts) ==
    IF texts = <<>> THEN <<>>
    ELSE IF Len(texts) = 1 THEN texts[1]
    ELSE texts[1] \o <<",", " ">> \o join_comma(Tail(texts))

\* a log line with its operands written in hexadecimal
format_instruction_hex(entry) ==
    OpText[entry.op] \o <<" ">>
        \o join_comma([i \in 1..Len(entry.operands) |-> hex_int(entry.operands[i].v)])

\* log_instruction: f"{op} {', '.join(map(str, operands))}" of one logged call
format_instruction(entry) ==
    OpText[entry.op] \o <<" ">>
        \o join_comma([i \in 1..Len(entry.operands) |-> str_int(entry.operands[i].v)])

\* instruction_log after the calls, each made on tpu_txt's own functions
logged(log, ops) ==
    log \o [n \in 1..Len(ops) |->
               log_instruction(<<>>, ops[n].op, logged_operands(ops[n].op, ops[n].args))[1]]

\* [assemble_line(line, matmul_len) for line in instruction_log]
assembled(log, matmul_len) ==
    [n \in 1..Len(log) |-> assemble_line(format_instruction(log[n]), matmul_len)]

\* a kernel whose body is the sequence, without parameters
sequence_kernel(ops) == KernelFunction("sequence", <<>>, ops)

PathAddrs == { <<0, 4, 8>>, <<16, 32, 48>>, <<8191, 0, 1023>>, <<1024, 8191, 4096>> }

PathOps ==
    { OpCall(op, <<I(a[1]), I(a[2]), I(a[3])>>, NoKwargs) :
          op \in {"matmul", "add", "sub", "mul", "relu", "relu_derivative"}, a \in PathAddrs }
    \cup { OpCall("matmul", <<I(a[1]), I(a[2]), I(a[3])>>, "m" :> 4) : a \in PathAddrs }

PathSequences == UNION {[1..n -> PathOps] : n \in 1..MaxSeq}

\* the sequence called on tpu_txt, then every logged line assembled
TextPath ==
    /\ "text" \notin DOMAIN last
    /\ \E log \in {logged(tpu_txt.instruction_log, cur)} :
          /\ tpu_txt' = [tpu_txt EXCEPT !.instruction_log = log]
          /\ last' = [op |-> "paths"] @@ ("text" :> assembled(log, 16)) @@ last
    /\ UNCHANGED <<asmVars, allocVars, progVars, driver, paramVars, traces, cur, nops>>

\* the sequence traced as a kernel, then resolved
KernelPath ==
    /\ "kernel" \notin DOMAIN last
    /\ \E compiled \in {KernelCompiler_compile(sequence_kernel(cur))} :
          last' = [op |-> "paths"]
                    @@ ("kernel" :> CompiledKernel_resolve(compiled, NoKwargs)) @@ last
    /\ UNCHANGED <<asmVars, allocVars, progVars, driver, paramVars, traceVars, cur, nops>>

InitPaths ==
    /\ AllocatorInit
    /\ ProgramIdle
    /\ DriverIdle
    /\ TraceIdle
    /\ AssemblerIdle
    /\ heap = <<>>
    /\ chain = <<>>
    /\ cur \in PathSequences
    /\ last = NoLast
    /\ nops = 0

NextPaths ==
    \/ TextPath
    \/ KernelPath

SpecPaths == InitPaths /\ [][NextPaths]_vars

BothPaths == "text" \in DOMAIN last /\ "kernel" \in DOMAIN last

\* C25: for a sequence of matmul (tile size 4), add, sub, mul, relu and
\* relu_derivative on addresses in 0..8191, assembling the lines tpu_txt logs
\* with matmul_len 16 gives one word per operation and, at every position,
\* the word that tracing the sequence as a kernel and resolving it gives.
C25_SameWords ==
    BothPaths =>
        /\ last.kernel.ok
        /\ Len(last.kernel.val) = Len(cur) /\ Len(last.text) = Len(cur)
        /\ \A n \in 1..Len(cur) :
              /\ ~last.text[n].raised
              /\ last.text[n].words = << last.kernel.val[n] >>

\* both paths ran on a matmul followed by a relu_derivative with the largest address
C25_Witness ==
    /\ BothPaths
    /\ Len(cur) = 2
    /\ cur[1].op = "matmul" /\ cur[2].op = "relu_derivative"
    /\ cur[2].args[1] = I(8191)
    /\ last.kernel.ok /\ last.kernel.val[1].b63_62 # last.kernel.val[2].b63_62
    /\ Len(tpu_txt.instruction_log) = 2

====
